---- MODULE Spec2Model ----
(***************************************************************************)
(* A model of the meeting-transcription application:                       *)
(*   - the speech session controller  (src/src/services/speech.ts)         *)
(*   - the transcript post-processor  (src/src/app/record/page.tsx)        *)
(*   - the minutes generation client  (src/src/services/aiService.ts)      *)
(*                                                                         *)
(* Text is a sequence of characters, a character is a string token.       *)
(* Vietnamese letters carrying diacritics are written in Telex, one token  *)
(* per letter ("aws" is a-breve-acute, "dd" is d-stroke, ...), so that the *)
(* accented and the stripped spelling of a phrase are different texts.     *)
(***************************************************************************)
EXTENDS Integers, Sequences, FiniteSets, TLC

VARIABLES
    host,             \* the host environment: window and the constructors it exposes
    options,          \* the argument of createSpeechRecognition
    controller,       \* what createSpeechRecognition returned: NotCalled, Null or Object
    recogProps,       \* recog.lang, recog.interimResults, recog.continuous
    autoRestart,      \* speech.ts: const autoRestart, fixed at construction
    inFlight,         \* the result event the recognizer has queued for delivery, or NoEvent
    recog,            \* the browser recognizer: NoRecog, "idle", "active", "stopping", "aborting"
    running,          \* speech.ts: let running
    manualStop,       \* speech.ts: let manualStop
    interimText,      \* speech.ts: let interimText
    finalSegments,    \* speech.ts: let finalSegments
    lastResultIndex,  \* speech.ts: let lastResultIndex
    pendingRestarts,  \* setTimeout callbacks scheduled by onend, not yet fired
    emitted,          \* the argument of the latest options.onResult call
    calls,            \* the callback invocations made by the latest step, in order
    thrown,           \* whether the latest controller call threw to its caller
    stoppedRunning,   \* stop()/abort() was called while running, and start() not since
    lastOp,           \* the handler or method that ran last, and the path it took
    transcript,       \* page.tsx: the argument of processMeetingTranscript
    recordingStartTime, \* page.tsx: recordingStartTime (ms, or NoTime)
    nowTime,          \* page.tsx: new Date() at extraction (ms)
    meetingData,      \* page.tsx: the MeetingData returned, or NoData
    storage,          \* localStorage: the items "mvp_ai" and "mvp_api_keys"
    minutesArg,       \* aiService.ts: the argument of generateMeetingMinutes
    pc,               \* generateMeetingMinutes: "idle", "fetching" (await fetch), "done"
    requests,         \* the fetch calls made, in order
    fetched,          \* what the fetch came to: a response, a rejection, or NoFetch
    result,           \* what generateMeetingMinutes returned (or threw), or NoResult
    loaded,           \* the latest settings call with its argument and what it returned, or NoLoad
    auth,             \* AuthContext.tsx: the token state, the session check, the redirects made
    page              \* page.tsx: the controllers created so far (controllerRef holds the
                      \* latest), recording, interim, finalSegments, meetingData

setupVars == <<host, options, controller, recogProps, autoRestart>>
ctlVars == <<setupVars, inFlight, recog, running, manualStop, interimText, finalSegments,
             lastResultIndex, pendingRestarts, emitted, calls, thrown, stoppedRunning,
             lastOp>>
ppVars == <<transcript, recordingStartTime, nowTime, meetingData>>
aiVars == <<storage, minutesArg, pc, requests, fetched, result, loaded>>
uiVars == <<auth, page>>
restVars == <<ppVars, aiVars, auth>>   \* what the controller and its callbacks do not touch
vars == <<ctlVars, ppVars, aiVars, uiVars>>

-----------------------------------------------------------------------------
(* Bounds *)

MaxSegs == 2      \* segments a session collects
MaxTimers == 1    \* restart timers pending at once
MaxChunks == 3    \* phrases joined into a transcript handed to the post-processor
MaxKeys == 2      \* entries the stored key list holds
MaxRequests == 2  \* fetch calls a variant of the client that tries again may make
MaxControllers == 2  \* controllers the record page creates

-----------------------------------------------------------------------------
(* Text primitives (String.prototype.trim, replace(/\s+/g," "), endsWith) *)

WhiteSpace == {" ", "\t"}

RECURSIVE TrimStart(_)
TrimStart(s) ==
    IF s = <<>> THEN <<>>
    ELSE IF Head(s) \in WhiteSpace THEN TrimStart(Tail(s)) ELSE s

RECURSIVE TrimEnd(_)
TrimEnd(s) ==
    IF s = <<>> THEN <<>>
    ELSE IF s[Len(s)] \in WhiteSpace THEN TrimEnd(SubSeq(s, 1, Len(s) - 1)) ELSE s

Trim(s) == TrimEnd(TrimStart(s))

\* s.replace(/\s+/g, " "): every maximal run of white space becomes one space
RECURSIVE CollapseWs(_)
CollapseWs(s) ==
    IF s = <<>> THEN <<>>
    ELSE IF Head(s) \in WhiteSpace
         THEN <<" ">> \o CollapseWs(TrimStart(s))
         ELSE <<Head(s)>> \o CollapseWs(Tail(s))

Normalize(s) == Trim(CollapseWs(s))

EndsWith(s, t) ==
    /\ Len(t) <= Len(s)
    /\ SubSeq(s, Len(s) - Len(t) + 1, Len(s)) = t

IsPrefix(s, t) ==
    /\ Len(s) <= Len(t)
    /\ SubSeq(t, 1, Len(s)) = s

-----------------------------------------------------------------------------
(* The callbacks of the options, and what a callback does with its argument *)

OnErrorCall(msg) == [cb |-> "onError", arg |-> msg]

\* op is what the callback then does to the finals array it was handed
OnResultCall(snap, op) == [cb |-> "onResult", arg |-> snap, then |-> op]

NoData == [none |-> TRUE]

\* a variant of the page's onResult that also drops the extraction
PageOnResultDropsExtraction(pg, snap) ==
    [pg EXCEPT !.interim = snap.interim, !.finalSegments = snap.finals,
               !.meetingData = NoData]

\* page.tsx onResult: ({ interim, finals }) => { setInterim(interim); setFinalSegments(finals) }
PageOnResult(pg, snap) ==
    [pg EXCEPT !.interim = snap.interim, !.finalSegments = snap.finals]

\* the page's state after the callbacks of one step; onError is (e) => setError(e),
\* which leaves the transcript state and the extraction as they are
RECURSIVE AfterCalls(_, _)
AfterCalls(pg, cs) ==
    IF cs = <<>> THEN pg
    ELSE AfterCalls(IF Head(cs).cb = "onResult" THEN PageOnResult(pg, Head(cs).arg) ELSE pg,
                    Tail(cs))

\* a callback that only reads its argument, and the writes a callback may make
Keep == "keep"
CallbackOps == {Keep, "push", "pop", "overwrite"}

Scribble == <<"x">>   \* the text a callback writes, which no recognizer delivers

\* arr.push(x), arr.pop(), arr[0] = x
Written(arr, op) ==
    CASE op = "push" -> Append(arr, Scribble)
      [] op = "pop" -> IF arr = <<>> THEN arr ELSE SubSeq(arr, 1, Len(arr) - 1)
      [] op = "overwrite" -> IF arr = <<>> THEN <<Scribble>> ELSE [arr EXCEPT ![1] = Scribble]
      [] OTHER -> arr

\* a variant that hands the controller's own array to the callback
LiveReference(segs) == [array |-> "finalSegments", items |-> segs]

\* [...finalSegments]: a new array object with the same items
SpreadCopy(segs) == [array |-> "new", items |-> segs]

\* the controller's array once the callback has done op to the array it was handed
AfterCallback(segs, handed, op) ==
    IF handed.array = "finalSegments" THEN Written(segs, op) ELSE segs

-----------------------------------------------------------------------------
(* createSpeechRecognition(options) *)

Null == "null"
NotCalled == "notCalled"   \* createSpeechRecognition has not returned yet
Object == "object"         \* the controller object of lines 110-137
NoRecog == "none"          \* no recognizer was constructed
NoProps == [none |-> TRUE]

\* typeof window !== "undefined" ? window : {}, and the constructors found there;
\* without a window there is none
Hosts ==
    { h \in [window : BOOLEAN, SpeechRecognition : BOOLEAN,
             webkitSpeechRecognition : BOOLEAN] :
        ~h.window => (~h.SpeechRecognition /\ ~h.webkitSpeechRecognition) }

\* an option is the empty set when it is not given, else the set of its value
OptionSets ==
    [lang : {{}, {""}, {"en-US"}},
     interim : {{}, {TRUE}, {FALSE}},
     continuous : {{}, {TRUE}, {FALSE}},
     autoRestart : {{}, {TRUE}, {FALSE}}]

\* options?.x ?? dflt
OrDefault(opt, dflt) == IF opt = {} THEN dflt ELSE CHOOSE v \in opt : TRUE

\* options?.x || dflt, for a string
OrIfEmpty(opt, dflt) == IF opt = {} \/ opt = {""} THEN dflt ELSE CHOOSE v \in opt : TRUE

\* recog.lang = lang; recog.interimResults = interim; recog.continuous = continuous
PropsFor(opts) ==
    [lang |-> OrIfEmpty(opts.lang, "vi-VN"),
     interimResults |-> OrDefault(opts.interim, TRUE),
     continuous |-> OrDefault(opts.continuous, TRUE)]

\* globalAny.SpeechRecognition || globalAny.webkitSpeechRecognition
HasRecognition(h) == h.window /\ (h.SpeechRecognition \/ h.webkitSpeechRecognition)

NotSupported == "Web Speech API is not supported in this browser."

\* a variant that constructs the recognizer without looking for it
CreateWithoutDetection ==
    /\ controller = NotCalled
    /\ autoRestart' = OrDefault(options.autoRestart, FALSE)
    /\ IF ~HasRecognition(host)
       THEN /\ thrown' = TRUE
            /\ controller' = NotCalled
            /\ lastOp' = "createThrew"
            /\ UNCHANGED <<recog, recogProps>>
       ELSE /\ thrown' = FALSE
            /\ recog' = "idle"
            /\ recogProps' = PropsFor(options)
            /\ controller' = Object
            /\ lastOp' = "create"
    /\ calls' = <<>>
    /\ running' = FALSE
    /\ manualStop' = FALSE
    /\ interimText' = <<>>
    /\ finalSegments' = <<>>
    /\ lastResultIndex' = 0
    /\ UNCHANGED <<host, options, inFlight, pendingRestarts, emitted, stoppedRunning>>
    /\ UNCHANGED restVars
    /\ page' = AfterCalls(page, calls')

CreateSpeechRecognition ==
    /\ controller = NotCalled
    /\ autoRestart' = OrDefault(options.autoRestart, FALSE)
    /\ IF ~HasRecognition(host)
       THEN /\ calls' = <<OnErrorCall(NotSupported)>>
            /\ controller' = Null
            /\ lastOp' = "createNull"
            /\ UNCHANGED <<recog, recogProps, running, manualStop, interimText,
                           finalSegments, lastResultIndex>>
       ELSE /\ calls' = <<>>
            /\ recog' = "idle"
            /\ recogProps' = PropsFor(options)
            /\ running' = FALSE
            /\ manualStop' = FALSE
            /\ interimText' = <<>>
            /\ finalSegments' = <<>>
            /\ lastResultIndex' = 0
            /\ controller' = Object
            /\ lastOp' = "create"
    /\ thrown' = FALSE
    /\ UNCHANGED <<host, options, inFlight, pendingRestarts, emitted, stoppedRunning>>
    /\ UNCHANGED restVars
    /\ page' = AfterCalls(page, calls')

-----------------------------------------------------------------------------
(* Inputs of the controller: recognition events *)

\* transcripts the recognizer may put in a result entry
Transcripts ==
    { <<" ">>,
      <<"b">>,
      <<"c">>,
      <<"a", "\t", " ", "b">> }

NoIndex == -1   \* ev.resultIndex is not a number

InterimTranscripts == { <<" ", "c">> }

Entries ==
    [isFinal : {TRUE}, transcript : Transcripts]
        \cup [isFinal : {FALSE}, transcript : InterimTranscripts]

\* ev.results: no entry, one entry or two entries (a longer list is handled as
\* its entries one after the other, by the same loop)
ResultLists == {<<>>} \cup [1..1 -> Entries] \cup [1..2 -> Entries]

\* ev.resultIndex is an index into ev.results; the short events also come without it
Events ==
    UNION { { [resultIndex |-> k, results |-> rs] :
                k \in (IF Len(rs) <= 1 THEN {NoIndex} ELSE {}) \cup (0..(Len(rs) - 1)) } :
            rs \in ResultLists }

\* events of up to three entries, with and without a resultIndex
LongEvents ==
    UNION { { [resultIndex |-> k, results |-> rs] : k \in {NoIndex} \cup (0..(Len(rs) - 1)) } :
            rs \in ResultLists \cup [1..3 -> Entries] }

\* the events of one entry, read from its beginning
SingleEvents == { ev \in Events : Len(ev.results) = 1 /\ ev.resultIndex = 0 }

NoEvent == [none |-> TRUE]

NoSnapshot == [none |-> TRUE]

Snapshot(i, f) == [interim |-> i, finals |-> f]

FinalsOf(snap) == IF snap = NoSnapshot THEN <<>> ELSE snap.finals

-----------------------------------------------------------------------------
(* recog.onresult *)

\* the for loop over ev.results[i], i = startIndex .. length-1 (i is 0-based)
RECURSIVE ScanResults(_, _, _)
ScanResults(results, i, acc) ==
    IF i >= Len(results) THEN acc
    ELSE LET res == results[i + 1]
             txt == Trim(res.transcript)
         IN  IF res.isFinal
             THEN ScanResults(results, i + 1,
                      [acc EXCEPT !.finals =
                          IF txt # <<>> THEN Append(@, txt) ELSE @])
             ELSE ScanResults(results, i + 1,
                      [acc EXCEPT !.interim = @ \o res.transcript])

\* a variant that reads every event from its first entry
StartIndexZero(ev, cursor) == 0

StartIndex(ev, cursor) ==
    IF ev.resultIndex # NoIndex THEN ev.resultIndex ELSE cursor

\* one iteration of "for (const seg of finalsThisEvent)"
\* a variant that rewrites the last segment when the new one extends it
DedupReplacesExtended(segs, seg) ==
    LET normalized == Normalize(seg)
    IN  IF segs = <<>> \/ segs[Len(segs)] = <<>> THEN Append(segs, normalized)
        ELSE LET lastNorm == Normalize(segs[Len(segs)])
             IN  IF lastNorm = normalized \/ EndsWith(lastNorm, normalized) THEN segs
                 ELSE IF EndsWith(normalized, lastNorm)
                      THEN [segs EXCEPT ![Len(segs)] = normalized]
                      ELSE Append(segs, normalized)

\* a variant that drops exact repetitions only
DedupExactOnly(segs, seg) ==
    LET normalized == Normalize(seg)
    IN  IF segs = <<>> \/ segs[Len(segs)] = <<>> THEN Append(segs, normalized)
        ELSE IF Normalize(segs[Len(segs)]) = normalized THEN segs
        ELSE Append(segs, normalized)

\* a variant that compares the new segment with every segment of the session
DedupAgainstAll(segs, seg) ==
    LET normalized == Normalize(seg)
        related(old) == \/ Normalize(old) = normalized
                        \/ EndsWith(Normalize(old), normalized)
                        \/ EndsWith(normalized, Normalize(old))
    IN  IF \E i \in 1..Len(segs) : related(segs[i]) THEN segs
        ELSE Append(segs, normalized)

AppendDedup(segs, seg) ==
    LET normalized == Normalize(seg)
    IN  IF segs = <<>> \/ segs[Len(segs)] = <<>>
        THEN Append(segs, normalized)
        ELSE LET lastNorm == Normalize(segs[Len(segs)])
             IN  IF lastNorm = normalized THEN segs
                 ELSE IF EndsWith(lastNorm, normalized) \/ EndsWith(normalized, lastNorm)
                      THEN segs
                      ELSE Append(segs, normalized)

RECURSIVE MergeFinals(_, _)
MergeFinals(segs, finalsThisEvent) ==
    IF finalsThisEvent = <<>> THEN segs
    ELSE MergeFinals(AppendDedup(segs, Head(finalsThisEvent)), Tail(finalsThisEvent))

\* a variant without "interimText = ''" at the top of the handler
OnResultKeepsInterim(ev, op) ==
    /\ recog \in {"active", "stopping"}
    /\ LET scan == ScanResults(ev.results, StartIndex(ev, lastResultIndex),
                               [finals |-> <<>>, interim |-> interimText])
           merged == MergeFinals(finalSegments, scan.finals)
           handed == SpreadCopy(merged)
       IN  /\ interimText' = scan.interim
           /\ emitted' = Snapshot(scan.interim, handed.items)
           /\ finalSegments' = AfterCallback(merged, handed, op)
    /\ lastResultIndex' = Len(ev.results)
    /\ calls' = <<OnResultCall(emitted', op)>>
    /\ lastOp' = "result"
    /\ thrown' = FALSE
    /\ UNCHANGED <<setupVars, inFlight, recog, running, manualStop, pendingRestarts, stoppedRunning>>
    /\ UNCHANGED restVars
    /\ page' = AfterCalls(page, calls')

\* a variant that returns at once after stop() or abort()
OnResultUnlessStopped(ev, op) ==
    /\ recog \in {"active", "stopping"}
    /\ LET scan == ScanResults(ev.results, StartIndex(ev, lastResultIndex),
                               [finals |-> <<>>, interim |-> <<>>])
           merged == MergeFinals(finalSegments, scan.finals)
           handed == SpreadCopy(merged)
       IN  IF manualStop
           THEN /\ calls' = <<>>
                /\ UNCHANGED <<interimText, emitted, finalSegments, lastResultIndex>>
           ELSE /\ interimText' = scan.interim
                /\ emitted' = Snapshot(scan.interim, handed.items)
                /\ finalSegments' = AfterCallback(merged, handed, op)
                /\ lastResultIndex' = Len(ev.results)
                /\ calls' = <<OnResultCall(emitted', op)>>
    /\ lastOp' = "result"
    /\ thrown' = FALSE
    /\ UNCHANGED <<setupVars, inFlight, recog, running, manualStop, pendingRestarts, stoppedRunning>>
    /\ UNCHANGED restVars
    /\ page' = AfterCalls(page, calls')

\* the handler, with a callback that does op to the array it is handed
OnResultThen(ev, op) ==
    /\ recog \in {"active", "stopping"}
    /\ LET scan == ScanResults(ev.results, StartIndex(ev, lastResultIndex),
                               [finals |-> <<>>, interim |-> <<>>])
           merged == MergeFinals(finalSegments, scan.finals)
           handed == SpreadCopy(merged)
       IN  /\ interimText' = scan.interim
           /\ emitted' = Snapshot(scan.interim, handed.items)
           /\ finalSegments' = AfterCallback(merged, handed, op)
    /\ lastResultIndex' = Len(ev.results)
    /\ calls' = <<OnResultCall(emitted', op)>>
    /\ lastOp' = "result"
    /\ thrown' = FALSE
    /\ UNCHANGED <<setupVars, inFlight, recog, running, manualStop, pendingRestarts, stoppedRunning>>
    /\ UNCHANGED restVars
    /\ page' = AfterCalls(page, calls')

\* the handler in a session of at most MaxSegs segments
OnResult(ev) ==
    /\ OnResultThen(ev, Keep)
    /\ Len(finalSegments') <= MaxSegs

-----------------------------------------------------------------------------
(* recog.onerror *)

\* ev.error and ev.message of an error event; "" stands for a missing or empty field.
\* A SpeechRecognitionErrorEvent of the browser carries an error code.
CodedErrors == { [error |-> "no-speech", message |-> ""] }

\* error events of every shape the handler provides for
ErrorEvents ==
    CodedErrors \cup
    { [error |-> "network", message |-> "connection lost"],
      [error |-> "", message |-> "connection lost"],
      [error |-> "", message |-> ""] }

\* ev.error || ev.message || "Speech recognition error"
ErrorMessage(ev) ==
    IF ev.error # "" THEN ev.error
    ELSE IF ev.message # "" THEN ev.message
    ELSE "Speech recognition error"

\* a variant that treats every stream error as the end of the session
OnErrorEndsSession(ev) ==
    /\ recog \notin {NoRecog, "idle"}
    /\ calls' = <<OnErrorCall(ErrorMessage(ev))>>
    /\ running' = FALSE
    /\ lastOp' = "error"
    /\ thrown' = FALSE
    /\ UNCHANGED <<setupVars, inFlight, recog, manualStop, interimText, finalSegments,
                   lastResultIndex, pendingRestarts, emitted, stoppedRunning>>
    /\ UNCHANGED restVars
    /\ page' = AfterCalls(page, calls')

OnError(ev) ==
    /\ recog \notin {NoRecog, "idle"}
    /\ calls' = <<OnErrorCall(ErrorMessage(ev))>>
    /\ lastOp' = "error"
    /\ thrown' = FALSE
    /\ UNCHANGED <<setupVars, inFlight, recog, running, manualStop, interimText, finalSegments,
                   lastResultIndex, pendingRestarts, emitted, stoppedRunning>>
    /\ UNCHANGED restVars
    /\ page' = AfterCalls(page, calls')

-----------------------------------------------------------------------------
(* recog.onend, and the timer callback it schedules *)

\* a variant that ignores options.autoRestart
RestartAlways == ~manualStop

\* if (!manualStop && autoRestart)
RestartWanted == ~manualStop /\ autoRestart

\* a variant that reports the end only when no restart follows, with the interim text
OnEndQuietBeforeRestart(op) ==
    /\ recog \notin {NoRecog, "idle"}
    /\ recog' = "idle"
    /\ running' = FALSE
    /\ IF RestartWanted
       THEN /\ pendingRestarts < MaxTimers
            /\ pendingRestarts' = pendingRestarts + 1
            /\ UNCHANGED <<emitted, finalSegments>>
            /\ calls' = <<>>
            /\ lastOp' = "endRestart"
       ELSE /\ UNCHANGED pendingRestarts
            /\ emitted' = Snapshot(interimText, finalSegments)
            /\ finalSegments' = AfterCallback(finalSegments, SpreadCopy(finalSegments), op)
            /\ calls' = <<OnResultCall(emitted', op)>>
            /\ lastOp' = "end"
    /\ thrown' = FALSE
    /\ UNCHANGED <<setupVars, inFlight, manualStop, interimText, lastResultIndex, stoppedRunning>>
    /\ UNCHANGED restVars
    /\ page' = AfterCalls(page, calls')

\* the handler, with a callback that does op to the array it is handed
OnEndThen(op) ==
    /\ recog \notin {NoRecog, "idle"}
    /\ recog' = "idle"
    /\ running' = FALSE
    /\ LET handed == SpreadCopy(finalSegments)
       IN  /\ emitted' = Snapshot(<<>>, handed.items)
           /\ finalSegments' = AfterCallback(finalSegments, handed, op)
    /\ calls' = <<OnResultCall(emitted', op)>>
    /\ IF RestartWanted
       THEN /\ pendingRestarts < MaxTimers
            /\ pendingRestarts' = pendingRestarts + 1
            /\ lastOp' = "endRestart"
       ELSE /\ UNCHANGED pendingRestarts
            /\ lastOp' = "end"
    /\ thrown' = FALSE
    /\ UNCHANGED <<setupVars, inFlight, manualStop, interimText, lastResultIndex, stoppedRunning>>
    /\ UNCHANGED restVars
    /\ page' = AfterCalls(page, calls')

OnEnd == OnEndThen(Keep)

\* recog.start() throws InvalidStateError unless the recognizer is idle
RecogStartThrows == recog # "idle"

\* a variant of the timer callback that reopens the stream and leaves the flag alone
RestartFireForgetsRunning ==
    /\ pendingRestarts > 0
    /\ pendingRestarts' = pendingRestarts - 1
    /\ IF RecogStartThrows
       THEN /\ UNCHANGED recog
            /\ lastOp' = "restartThrew"
       ELSE /\ recog' = "active"
            /\ lastOp' = "restart"
    /\ calls' = <<>>
    /\ thrown' = FALSE
    /\ UNCHANGED <<setupVars, inFlight, running, manualStop, interimText, finalSegments,
                   lastResultIndex, emitted, stoppedRunning>>
    /\ UNCHANGED restVars
    /\ page' = AfterCalls(page, calls')

\* setTimeout(() => { try { recog.start(); running = true } catch (e) {} }, restartDelayMs)
RestartFire ==
    /\ pendingRestarts > 0
    /\ pendingRestarts' = pendingRestarts - 1
    /\ IF RecogStartThrows
       THEN /\ UNCHANGED <<recog, running>>
            /\ lastOp' = "restartThrew"
       ELSE /\ recog' = "active"
            /\ running' = TRUE
            /\ lastOp' = "restart"
    /\ calls' = <<>>
    /\ thrown' = FALSE
    /\ UNCHANGED <<setupVars, inFlight, manualStop, interimText, finalSegments, lastResultIndex,
                   emitted, stoppedRunning>>
    /\ UNCHANGED restVars
    /\ page' = AfterCalls(page, calls')

-----------------------------------------------------------------------------
(* The controller's methods *)

\* a variant of start() that begins a fresh session
StartResetsSession ==
    /\ controller = Object
    /\ manualStop' = FALSE
    /\ IF RecogStartThrows
       THEN /\ UNCHANGED <<recog, running>>
            /\ lastOp' = "startThrew"
       ELSE /\ recog' = "active"
            /\ running' = TRUE
            /\ lastOp' = "start"
    /\ thrown' = FALSE
    /\ stoppedRunning' = FALSE
    /\ finalSegments' = <<>>
    /\ interimText' = <<>>
    /\ calls' = <<>>
    /\ UNCHANGED <<setupVars, inFlight, lastResultIndex, pendingRestarts, emitted>>
    /\ UNCHANGED restVars
    /\ page' = AfterCalls(page, calls')

\* try { manualStop = false; recog.start(); running = true } catch (e) {}
Start ==
    /\ controller = Object
    /\ manualStop' = FALSE
    /\ IF RecogStartThrows
       THEN /\ UNCHANGED <<recog, running>>
            /\ lastOp' = "startThrew"
       ELSE /\ recog' = "active"
            /\ running' = TRUE
            /\ lastOp' = "start"
    /\ thrown' = FALSE
    /\ stoppedRunning' = FALSE
    /\ calls' = <<>>
    /\ UNCHANGED <<setupVars, inFlight, interimText, finalSegments, lastResultIndex,
                   pendingRestarts, emitted>>
    /\ UNCHANGED restVars
    /\ page' = AfterCalls(page, calls')

\* try { manualStop = true; recog.stop(); running = false } catch (e) {}
\* recog.stop() and recog.abort() do not throw; the recognizer ends later, by an end event
StopCall ==
    /\ controller = Object
    /\ manualStop' = TRUE
    /\ recog' = IF recog = "active" THEN "stopping" ELSE recog
    /\ running' = FALSE
    /\ lastOp' = "stop"
    /\ thrown' = FALSE
    /\ stoppedRunning' = (stoppedRunning \/ running)
    /\ calls' = <<>>
    /\ UNCHANGED <<setupVars, inFlight, interimText, finalSegments, lastResultIndex,
                   pendingRestarts, emitted>>

\* stop(), called on its own
Stop ==
    /\ StopCall
    /\ UNCHANGED restVars
    /\ page' = AfterCalls(page, calls')

Abort ==
    /\ controller = Object
    /\ manualStop' = TRUE
    /\ recog' = IF recog \in {"active", "stopping"} THEN "aborting" ELSE recog
    /\ running' = FALSE
    /\ lastOp' = "abort"
    /\ thrown' = FALSE
    /\ stoppedRunning' = (stoppedRunning \/ running)
    /\ calls' = <<>>
    /\ UNCHANGED <<setupVars, inFlight, interimText, finalSegments, lastResultIndex,
                   pendingRestarts, emitted>>
    /\ UNCHANGED restVars
    /\ page' = AfterCalls(page, calls')

-----------------------------------------------------------------------------
(* Text primitives of the post-processor (toLowerCase, indexOf, substring) *)

\* the upper-case letters the inputs use; every other character is its own lower case
LowerCase(c) ==
    CASE c = "B" -> "b"
      [] c = "H" -> "h"
      [] c = "K" -> "k"
      [] OTHER -> c

ToLowerCase(s) == [i \in 1..Len(s) |-> LowerCase(s[i])]

\* s.indexOf(pat, from): the least 0-based position >= from where pat occurs, or -1
IndexOfFrom(s, pat, from) ==
    LET hits == { i \in from..(Len(s) - Len(pat)) : SubSeq(s, i + 1, i + Len(pat)) = pat }
    IN  IF hits = {} THEN -1 ELSE CHOOSE i \in hits : \A j \in hits : i <= j

IndexOf(s, pat) == IndexOfFrom(s, pat, 0)

Clamp(n, len) == IF n < 0 THEN 0 ELSE IF n > len THEN len ELSE n

\* s.substring(a, b): both ends clamped to 0..length, swapped when a > b
Substring(s, a, b) ==
    LET x == Clamp(a, Len(s))
        y == Clamp(b, Len(s))
    IN  IF x <= y THEN SubSeq(s, x + 1, y) ELSE SubSeq(s, y + 1, x)

SubstringFrom(s, a) == Substring(s, a, Len(s))

-----------------------------------------------------------------------------
(* processMeetingTranscript *)

StartPatterns ==
    << <<"b","aws","t"," ","dd","aaf","u"," ","c","u","ooj","c"," ","h","oj","p">>,
       <<"b","a","t"," ","d","a","u"," ","c","u","o","c"," ","h","o","p">>,
       <<"b","aws","t"," ","dd","aaf","u"," ","h","oj","p">>,
       <<"b","a","t"," ","d","a","u"," ","h","o","p">> >>

EndPatterns ==
    << <<"k","ees","t"," ","t","h","us","c"," ","c","u","ooj","c"," ","h","oj","p">>,
       <<"k","e","t"," ","t","h","u","c"," ","c","u","o","c"," ","h","o","p">>,
       <<"k","ees","t"," ","t","h","us","c"," ","h","oj","p">>,
       <<"k","e","t"," ","t","h","u","c"," ","h","o","p">> >>

\* a variant that takes the earliest occurrence of any phrase of the list
EarliestIndex(text, patterns) ==
    LET found == { IndexOf(text, patterns[k]) : k \in 1..Len(patterns) } \ {-1}
    IN  IF found = {} THEN -1
        ELSE CHOOSE i \in found : \A j \in found : i <= j

\* "for (const pattern of patterns) { idx = indexOf(pattern); if (idx !== -1) break }"
RECURSIVE FirstIndex(_, _)
FirstIndex(text, patterns) ==
    IF patterns = <<>> THEN -1
    ELSE LET idx == IndexOf(text, Head(patterns))
         IN  IF idx # -1 THEN idx ELSE FirstIndex(text, Tail(patterns))

NoTime == -1      \* recordingStartTime is null
Unset == <<>>     \* a timing field left at its initial null

\* Date.toLocaleString("vi-VN")
LocaleString(ms) == <<"vi-VN", ms>>

\* a variant that rounds the seconds to the nearest one
DurationRounded(durationMs) ==
    <<durationMs \div 60000, "phut", ((durationMs % 60000) + 500) \div 1000, "giay">>

\* `${minutes} phút ${seconds} giây`
DurationText(durationMs) ==
    <<durationMs \div 60000, "phut", (durationMs % 60000) \div 1000, "giay">>

MeetingData(full, content, valid, st, en, du) ==
    [fullTranscript |-> full, meetingContent |-> content, hasValidMeeting |-> valid,
     startTime |-> st, endTime |-> en, duration |-> du]

\* a variant that trims the content in every branch
ProcessTrimsFallback(text, recStart, now) ==
    LET normalizedText == ToLowerCase(text)
        startIndex == FirstIndex(normalizedText, StartPatterns)
        endIndex == FirstIndex(normalizedText, EndPatterns)
    IN  IF startIndex = -1 /\ endIndex = -1
        THEN MeetingData(text, Trim(text), FALSE, Unset, Unset, Unset)
        ELSE MeetingData(text, Trim(text), TRUE, Unset, Unset, Unset)

\* a variant whose end-only branch cuts after the end phrase's first word
ProcessEndOnlyCutsLate(text, recStart, now) ==
    LET normalizedText == ToLowerCase(text)
        startIndex == FirstIndex(normalizedText, StartPatterns)
        endIndex == FirstIndex(normalizedText, EndPatterns)
        startCutIndex == IndexOfFrom(normalizedText, <<" ">>, startIndex) + 1
        endCutIndex == IndexOfFrom(normalizedText, <<" ">>, endIndex)
    IN  IF startIndex # -1 /\ endIndex # -1 /\ endIndex > startIndex
        THEN IF recStart # NoTime
             THEN MeetingData(text, Trim(Substring(text, startCutIndex, endIndex)), TRUE,
                              LocaleString(recStart), LocaleString(now),
                              DurationText(now - recStart))
             ELSE MeetingData(text, Trim(Substring(text, startCutIndex, endIndex)), TRUE,
                              Unset, Unset, Unset)
        ELSE IF startIndex # -1
        THEN MeetingData(text, Trim(SubstringFrom(text, startCutIndex)), TRUE,
                         Unset, Unset, Unset)
        ELSE IF endIndex # -1
        THEN MeetingData(text, Trim(Substring(text, 0, endCutIndex)), TRUE, Unset, Unset, Unset)
        ELSE MeetingData(text, text, FALSE, Unset, Unset, Unset)

ProcessMeetingTranscript(text, recStart, now) ==
    LET normalizedText == ToLowerCase(text)
        startIndex == FirstIndex(normalizedText, StartPatterns)
        endIndex == FirstIndex(normalizedText, EndPatterns)
        startCutIndex == IndexOfFrom(normalizedText, <<" ">>, startIndex) + 1
    IN  IF startIndex # -1 /\ endIndex # -1 /\ endIndex > startIndex
        THEN IF recStart # NoTime
             THEN MeetingData(text, Trim(Substring(text, startCutIndex, endIndex)), TRUE,
                              LocaleString(recStart), LocaleString(now),
                              DurationText(now - recStart))
             ELSE MeetingData(text, Trim(Substring(text, startCutIndex, endIndex)), TRUE,
                              Unset, Unset, Unset)
        ELSE IF startIndex # -1
        THEN MeetingData(text, Trim(SubstringFrom(text, startCutIndex)), TRUE,
                         Unset, Unset, Unset)
        ELSE IF endIndex # -1
        THEN MeetingData(text, Trim(Substring(text, 0, endIndex)), TRUE, Unset, Unset, Unset)
        ELSE MeetingData(text, text, FALSE, Unset, Unset, Unset)

Extract ==
    /\ meetingData = NoData
    /\ meetingData' = ProcessMeetingTranscript(transcript, recordingStartTime, nowTime)
    /\ UNCHANGED <<transcript, recordingStartTime, nowTime>>
    /\ UNCHANGED <<ctlVars, aiVars, uiVars>>

\* Array.prototype.join(" ")
RECURSIVE JoinSp(_)
JoinSp(parts) ==
    IF parts = <<>> THEN <<>>
    ELSE IF Len(parts) = 1 THEN parts[1]
    ELSE parts[1] \o <<" ">> \o JoinSp(Tail(parts))

\* page.tsx stopRecording: controllerRef.current?.stop(), then the extraction from
\* the page's finalSegments state. The button is shown while recording.
StopRecording ==
    /\ page.recording
    /\ page.ref = 1
    /\ StopCall
    /\ LET fullText == JoinSp(page.finalSegments)
       IN  /\ transcript' = fullText
           /\ meetingData' = IF Trim(fullText) # <<>>
                              THEN ProcessMeetingTranscript(fullText, recordingStartTime, nowTime)
                              ELSE meetingData
           /\ page' = [page EXCEPT !.recording = FALSE,
                                   !.meetingData = IF Trim(fullText) # <<>> THEN meetingData' ELSE @]
    /\ UNCHANGED <<recordingStartTime, nowTime, aiVars, auth>>

\* page.tsx startRecording once a controller exists: the extraction is dropped;
\* with the microphone allowed a further controller is created with the same
\* callbacks, stored in controllerRef and started. Nothing is done to the
\* controller created before, which the controller variables keep describing;
\* the later controller is known by its snapshots only.
StartRecording(allowed) ==
    /\ ~page.recording
    /\ page.ref >= 1
    /\ page.ref < MaxControllers
    /\ IF allowed
       THEN /\ page' = [page EXCEPT !.meetingData = NoData, !.ref = @ + 1, !.recording = TRUE]
            /\ recordingStartTime' = nowTime
       ELSE /\ page' = [page EXCEPT !.meetingData = NoData]
            /\ UNCHANGED recordingStartTime
    /\ lastOp' = "startRecording"
    /\ calls' = <<>>
    /\ thrown' = FALSE
    /\ UNCHANGED <<setupVars, inFlight, recog, running, manualStop, interimText, finalSegments,
                   lastResultIndex, pendingRestarts, emitted, stoppedRunning>>
    /\ UNCHANGED <<transcript, nowTime, meetingData, aiVars, auth>>

\* the onResult callback called by a controller created by a later startRecording
LaterOnResult(snap) ==
    /\ page.ref > 1
    /\ page' = PageOnResult(page, snap)
    /\ lastOp' = "laterResult"
    /\ calls' = <<>>
    /\ thrown' = FALSE
    /\ UNCHANGED <<setupVars, inFlight, recog, running, manualStop, interimText, finalSegments,
                   lastResultIndex, pendingRestarts, emitted, stoppedRunning>>
    /\ UNCHANGED <<ppVars, aiVars, auth>>

\* page.tsx clear: the page's transcript, extraction and start time are reset
Clear ==
    /\ page.ref >= 1
    /\ page' = [page EXCEPT !.finalSegments = <<>>, !.interim = <<>>, !.meetingData = NoData]
    /\ recordingStartTime' = NoTime
    /\ lastOp' = "clear"
    /\ calls' = <<>>
    /\ thrown' = FALSE
    /\ UNCHANGED <<setupVars, inFlight, recog, running, manualStop, interimText, finalSegments,
                   lastResultIndex, pendingRestarts, emitted, stoppedRunning>>
    /\ UNCHANGED <<transcript, nowTime, meetingData, aiVars, auth>>

-----------------------------------------------------------------------------
(* Inputs of the post-processor *)

Hello == <<"H","e","l","l","o">>
DiscussBudget == <<"d","i","s","c","u","s","s"," ","b","u","d","g","e","t">>
Bye == <<"b","y","e">>

\* phrases a transcript is made of: filler, markers in several spellings and cases
Chunks ==
    { <<>>,
      Hello,
      <<"B","aws","t"," ","dd","aaf","u"," ","c","u","ooj","c"," ","h","oj","p">>,
      <<"b","a","t"," ","d","a","u"," ","h","o","p">>,
      <<"k","ees","t"," ","t","h","us","c"," ","c","u","ooj","c"," ","h","oj","p">>,
      <<"K","e","t"," ","t","h","u","c"," ","H","o","p">> }

\* "hello bat-dau-cuoc-hop discuss budget ket-thuc-cuoc-hop bye", accented, lower case
ExampleTranscript ==
    JoinSp(<< <<"h","e","l","l","o">>, StartPatterns[1], DiscussBudget, EndPatterns[1], Bye >>)

InputTranscripts ==
    { JoinSp(parts) : parts \in UNION { [1..n -> Chunks] : n \in 1..MaxChunks } }
        \cup {ExampleTranscript}

RecordingStarts == {NoTime, 1000}

Elapsed == {59999, 125000}

-----------------------------------------------------------------------------
(* localStorage and the saved settings (getAIConfig, getAPIKeys, getAPIKeyById) *)

\* an item is absent, or a string that JSON.parse rejects, or the JSON text of a value
Absent == [none |-> TRUE]
Corrupt == [corrupt |-> TRUE]
Json(v) == [json |-> v]

DefaultPrompt == "DEFAULT_PROMPT"

DefaultConfig ==
    [domain |-> "gpt", apiKey |-> <<>>, prompt |-> DefaultPrompt,
     processingMode |-> "conversation", selectedKeyId |-> Null]

\* a function that throws e to its caller
Threw(e) == [threw |-> e]

\* a variant without the try/catch around JSON.parse and without the prompt default
GetAIConfigUnguarded(st) ==
    LET raw == st.mvp_ai
    IN  IF raw = Absent THEN DefaultConfig
        ELSE IF raw = Corrupt THEN Threw("SyntaxError")
        ELSE raw.json

GetAIConfig(st) ==
    LET raw == st.mvp_ai
    IN  IF raw = Absent THEN DefaultConfig
        ELSE IF raw = Corrupt THEN DefaultConfig
        ELSE [raw.json EXCEPT !.prompt = IF @ = "" THEN DefaultPrompt ELSE @]

GetAPIKeys(st) ==
    LET raw == st.mvp_api_keys
    IN  IF raw = Absent THEN <<>>
        ELSE IF raw = Corrupt THEN <<>>
        ELSE raw.json

NoLoad == [none |-> TRUE]

\* the settings page reads both items when it mounts
LoadSettings ==
    /\ loaded = NoLoad
    /\ loaded' = [keys |-> GetAPIKeys(storage), config |-> GetAIConfig(storage)]
    /\ UNCHANGED <<storage, minutesArg, pc, requests, fetched, result>>
    /\ UNCHANGED <<ctlVars, ppVars, uiVars>>

NoEntry == [none |-> TRUE]

\* if (!id) return null; return getAPIKeys().find((k) => k.id === id) || null
GetAPIKeyById(st, id) ==
    LET list == GetAPIKeys(st)
        found == { i \in 1..Len(list) : list[i].id = id }
    IN  IF id = Null \/ id = "" THEN NoEntry
        ELSE IF found = {} THEN NoEntry
        ELSE list[CHOOSE i \in found : \A j \in found : i <= j]

-----------------------------------------------------------------------------
(* generateMeetingMinutes *)

\* a variant that replaces a stored entry of the same id
AddAPIKeyReplacing(entry, now) ==
    /\ Len(GetAPIKeys(storage)) < MaxKeys
    /\ LET list == GetAPIKeys(storage)
           withMeta == [id |-> entry.id, domain |-> entry.domain, key |-> entry.key,
                        createdAt |-> now]
       IN  /\ storage' = [storage EXCEPT !.mvp_api_keys =
                             Json(<<withMeta>> \o SelectSeq(list, LAMBDA k : k.id # entry.id))]
           /\ loaded' = [added |-> withMeta]
    /\ UNCHANGED <<minutesArg, pc, requests, fetched, result>>
    /\ UNCHANGED <<ctlVars, ppVars, uiVars>>

\* list = getAPIKeys(); list.unshift({...entry, createdAt}); setItem; return withMeta
AddAPIKey(entry, now) ==
    /\ Len(GetAPIKeys(storage)) < MaxKeys
    /\ LET list == GetAPIKeys(storage)
           withMeta == [id |-> entry.id, domain |-> entry.domain, key |-> entry.key,
                        createdAt |-> now]
       IN  /\ storage' = [storage EXCEPT !.mvp_api_keys = Json(<<withMeta>> \o list)]
           /\ loaded' = [added |-> withMeta]
    /\ UNCHANGED <<minutesArg, pc, requests, fetched, result>>
    /\ UNCHANGED <<ctlVars, ppVars, uiVars>>

\* list = getAPIKeys().filter((k) => k.id !== id); setItem
RemoveAPIKey(id) ==
    /\ LET list == GetAPIKeys(storage)
       IN  /\ storage' = [storage EXCEPT !.mvp_api_keys =
                             Json(SelectSeq(list, LAMBDA k : k.id # id))]
           /\ loaded' = [removed |-> id,
                         secrets |-> { list[i].key : i \in { j \in 1..Len(list) : list[j].id = id } }]
    /\ UNCHANGED <<minutesArg, pc, requests, fetched, result>>
    /\ UNCHANGED <<ctlVars, ppVars, uiVars>>

\* SettingsPage handleSave, with the page's domain, apiKeyInput and selectedKeyId
HandleSave(domain, apiKeyInput, selectedKeyId) ==
    /\ LET selectedKey == GetAPIKeyById(storage, selectedKeyId)
           finalApiKey == IF selectedKey # NoEntry THEN selectedKey.key ELSE apiKeyInput
           cfg == [domain |-> domain, apiKey |-> finalApiKey, prompt |-> "",
                   processingMode |-> "conversation", selectedKeyId |-> selectedKeyId]
       IN  /\ storage' = [storage EXCEPT !.mvp_ai = Json(cfg)]
           /\ loaded' = [saved |-> cfg]
    /\ UNCHANGED <<minutesArg, pc, requests, fetched, result>>
    /\ UNCHANGED <<ctlVars, ppVars, uiVars>>

\* key.startsWith("AIza"): a key is a sequence of tokens, its prefix the first one
StartsWith(key, prefix) == key # <<>> /\ key[1] = prefix

\* a variant that looks at the key's prefix before the domain
DetectByPrefixFirst(key, domainPref) ==
    IF StartsWith(key, "AIza") THEN "gemini"
    ELSE IF domainPref = "gemini" THEN "gemini"
    ELSE "openai"

DetectProvider(key, domainPref) ==
    IF domainPref = "gemini" THEN "gemini"
    ELSE IF domainPref = "gpt" \/ domainPref = "grok" THEN domainPref
    ELSE IF key = <<>> THEN "openai"
    ELSE IF StartsWith(key, "AIza") THEN "gemini"
    ELSE "openai"

\* encodeURIComponent, on the characters the keys are made of
EncodeChar(c) ==
    CASE c = "&" -> "%26"
      [] c = "=" -> "%3D"
      [] OTHER -> c

EncodeURIComponent(key) == [i \in 1..Len(key) |-> EncodeChar(key[i])]

\* the POST to the generate endpoint: the key is a query parameter of the URL
GenerateRequest(key, prompt, text) ==
    [method |-> "POST",
     url |-> "https://generativelanguage.googleapis.com/v1beta2/models/text-bison-001:generate",
     keyParam |-> {EncodeURIComponent(key)},
     bearer |-> {},
     system |-> {},
     text |-> <<prompt, "\n\n", text>>]

\* the POST to the chat completions endpoint: the key is a bearer token
ChatRequest(key, prompt, text) ==
    [method |-> "POST",
     url |-> "https://api.openai.com/v1/chat/completions",
     keyParam |-> {},
     bearer |-> {key},
     system |-> {prompt},
     text |-> <<"Chuyen doan van sau thanh bien ban hop theo huong dan tren:", "\n", text>>]

Failure(msg) == [ok |-> FALSE, message |-> msg]
Success(minutes) == [ok |-> TRUE, minutes |-> minutes]

NoResult == [none |-> TRUE]
NoFetch == [none |-> TRUE]
Response(status, body) == [status |-> status, body |-> body]
Rejection(e) == [rejected |-> e]

\* a variant that takes the key of the configuration first
SelectKeyConfigFirst(selected, cfg) ==
    IF cfg.apiKey # <<>> THEN cfg.apiKey
    ELSE IF selected # NoEntry THEN selected.key
    ELSE <<>>

\* selected?.key || cfg.apiKey
SelectKey(selected, cfg) ==
    IF selected # NoEntry /\ selected.key # <<>> THEN selected.key ELSE cfg.apiKey

\* a variant that tests the transcript only for being empty
BlankOnlyIfEmpty(text) == text = <<>>

\* !transcript || !transcript.trim()
Blank(text) == text = <<>> \/ Trim(text) = <<>>

\* the call, up to its first return or to the fetch it awaits
GenerateMeetingMinutes ==
    /\ pc = "idle"
    /\ IF Blank(minutesArg)
       THEN /\ result' = Failure(<<"No transcript provided">>)
            /\ pc' = "done"
            /\ UNCHANGED requests
       ELSE LET cfg == GetAIConfig(storage)
                selected == GetAPIKeyById(storage, cfg.selectedKeyId)
                key == SelectKey(selected, cfg)
                prompt == IF cfg.prompt = "" THEN DefaultPrompt ELSE cfg.prompt
            IN  IF key = <<>>
                THEN /\ result' = Failure(<<"No API key configured. Please save an API key in Settings.">>)
                     /\ pc' = "done"
                     /\ UNCHANGED requests
                ELSE /\ requests' =
                          Append(requests,
                                 IF DetectProvider(key, cfg.domain) = "gemini"
                                 THEN GenerateRequest(key, prompt, minutesArg)
                                 ELSE ChatRequest(key, prompt, minutesArg))
                     /\ pc' = "fetching"
                     /\ UNCHANGED result
    /\ UNCHANGED <<storage, minutesArg, fetched, loaded>>
    /\ UNCHANGED <<ctlVars, ppVars, uiVars>>

\* res.ok
ResOk(status) == status >= 200 /\ status <= 299

\* a field of the reply is the empty set when it is missing or null, else the set of
\* its text; a || b takes b when a is missing or empty, a ?? b only when a is missing
FirstTruthy(a, b) == IF a = {} \/ a = {<<>>} THEN b ELSE a
FirstPresent(a, b) == IF a = {} THEN b ELSE a

\* j?.candidates?.[0]?.output || j?.candidates?.[0]?.content || null
GenerateReply(j) == FirstTruthy(j.output, j.content)

\* j?.choices?.[0]?.message?.content ?? j?.choices?.[0]?.text ?? null
ChatReply(j) == FirstPresent(j.messageContent, j.text)

\* the request was the generate-style one
IsGenerate(req) == req.keyParam # {}

\* a variant that reads the reply whatever the status
MapResponseIgnoringStatus(req, res) ==
    IF ~res.body.isJson THEN Failure(<<"Unexpected token">>)
    ELSE LET minutes == IF IsGenerate(req) THEN GenerateReply(res.body) ELSE ChatReply(res.body)
         IN  IF minutes = {} \/ minutes = {<<>>}
             THEN Failure(<<"No reply from AI">>)
             ELSE Success(Trim(CHOOSE m \in minutes : TRUE))

\* from "if (!res.ok)" to the return, in either branch; res.json() rejects a body
\* that is not JSON, and the catch turns that into a failure
MapResponse(req, res) ==
    IF ~ResOk(res.status) THEN Failure(<<"HTTP", res.status, res.body>>)
    ELSE IF ~res.body.isJson THEN Failure(<<"Unexpected token">>)
    ELSE LET minutes == IF IsGenerate(req) THEN GenerateReply(res.body) ELSE ChatReply(res.body)
         IN  IF minutes = {} \/ minutes = {<<>>}
             THEN Failure(<<"No reply from AI">>)
             ELSE Success(Trim(CHOOSE m \in minutes : TRUE))

\* the fetch resolves with a response
FetchResolves(res) ==
    /\ pc = "fetching"
    /\ fetched' = res
    /\ result' = MapResponse(requests[Len(requests)], res)
    /\ pc' = "done"
    /\ UNCHANGED <<storage, minutesArg, requests, loaded>>
    /\ UNCHANGED <<ctlVars, ppVars, uiVars>>

\* String(e?.message || e)
FailureText(e) == IF e.message # "" THEN e.message ELSE e.text

\* a variant that sends the request again after a rejection, and throws in the end
FetchRejectsAndRetries(e) ==
    /\ pc = "fetching"
    /\ fetched' = Rejection(e)
    /\ IF Len(requests) < MaxRequests
       THEN /\ requests' = Append(requests, requests[Len(requests)])
            /\ UNCHANGED <<pc, result>>
       ELSE /\ result' = Threw(e)
            /\ pc' = "done"
            /\ UNCHANGED requests
    /\ UNCHANGED <<storage, minutesArg, loaded>>
    /\ UNCHANGED <<ctlVars, ppVars, uiVars>>

\* the fetch rejects: catch (e) { return { ok: false, message: String(e?.message || e) } }
FetchRejects(e) ==
    /\ pc = "fetching"
    /\ fetched' = Rejection(e)
    /\ result' = Failure(<<FailureText(e)>>)
    /\ pc' = "done"
    /\ UNCHANGED <<storage, minutesArg, requests, loaded>>
    /\ UNCHANGED <<ctlVars, ppVars, uiVars>>

-----------------------------------------------------------------------------
(* Inputs of the minutes generation client *)

GeminiKey == <<"AIza", "1">>
OpenAIKey == <<"sk-", "a", "&", "=">>
OtherKey == <<"x", "y">>

SavedConfigs ==
    [domain : {"gpt", "gemini", "grok", ""},
     apiKey : {<<>>, GeminiKey, OtherKey},
     prompt : {"", "custom prompt"},
     processingMode : {"conversation"},
     selectedKeyId : {Null, "k1", "k2"}]

\* stored entries: one with a key, one whose key is empty
EntryK1 == [id |-> "k1", domain |-> "gpt", key |-> OpenAIKey, createdAt |-> "t1"]
EntryK2 == [id |-> "k2", domain |-> "gemini", key |-> <<>>, createdAt |-> "t2"]

SavedKeyLists == { <<>>, <<EntryK1>>, <<EntryK2>>, <<EntryK2, EntryK1>> }

Storages ==
    [mvp_ai : {Absent, Corrupt} \cup { Json(c) : c \in SavedConfigs },
     mvp_api_keys : {Absent, Corrupt} \cup { Json(l) : l \in SavedKeyLists }]

MinutesArgs == { <<>>, <<" ", "\t">>, <<" ", "h", "i", " ">> }

Reply == <<" ", "o", "k", "\t">>

ReplyFields == { {}, {<<>>}, {<<" ">>}, {Reply} }

\* bodies in the shape of either provider, and a body that is not JSON
Bodies ==
    [isJson : {TRUE}, output : ReplyFields, content : {{}, {Reply}},
     messageContent : {{}}, text : {{}}]
    \cup
    [isJson : {TRUE}, output : {{}}, content : {{}},
     messageContent : ReplyFields, text : {{}, {Reply}}]
    \cup
    [isJson : {FALSE}, output : {{}}, content : {{}}, messageContent : {{}}, text : {{}}]

Statuses == {200, 299, 300, 401, 500}

Responses == { Response(st, b) : st \in Statuses, b \in Bodies }

\* what a fetch rejects with: an Error with a message, one without, a thrown string
FetchErrors ==
    { [message |-> "Failed to fetch", text |-> "TypeError: Failed to fetch"],
      [message |-> "", text |-> "Error"],
      [message |-> "", text |-> "aborted"] }

-----------------------------------------------------------------------------
(* Specifications *)

AIIdle ==
    /\ storage = [mvp_ai |-> Absent, mvp_api_keys |-> Absent]
    /\ minutesArg = <<>>
    /\ pc = "idle"
    /\ requests = <<>>
    /\ fetched = NoFetch
    /\ result = NoResult
    /\ loaded = NoLoad

\* the record page and the AuthProvider before they are used
PageIdle ==
    [ref |-> 0, recording |-> FALSE, interim |-> <<>>, finalSegments |-> <<>>,
     meetingData |-> NoData]
AuthIdle == [none |-> TRUE]

PPIdle ==
    /\ auth = AuthIdle
    /\ page = PageIdle
    /\ transcript = <<>>
    /\ recordingStartTime = NoTime
    /\ nowTime = 0
    /\ meetingData = NoData

\* a browser with the prefixed constructor, and the options page.tsx passes
Browser == [window |-> TRUE, SpeechRecognition |-> FALSE, webkitSpeechRecognition |-> TRUE]

OptionsOfPage(restart) ==
    [lang |-> {"vi-VN"}, interim |-> {TRUE}, continuous |-> {TRUE}, autoRestart |-> {restart}]

CtlCreated ==
    /\ host = Browser
    /\ options = OptionsOfPage(autoRestart)
    /\ controller = Object
    /\ recogProps = PropsFor(options)
    /\ inFlight = NoEvent
    /\ calls = <<>>
    /\ recog = "idle"
    /\ running = FALSE
    /\ manualStop = FALSE
    /\ interimText = <<>>
    /\ finalSegments = <<>>
    /\ lastResultIndex = 0
    /\ pendingRestarts = 0
    /\ emitted = NoSnapshot
    /\ thrown = FALSE
    /\ stoppedRunning = FALSE
    /\ lastOp = "create"

\* the controller, from createSpeechRecognition(options) on
Init ==
    /\ autoRestart \in BOOLEAN
    /\ CtlCreated
    /\ PPIdle
    /\ AIIdle

Next ==
    \/ Start
    \/ Stop
    \/ Abort
    \/ \E ev \in Events : OnResult(ev)
    \/ \E ev \in CodedErrors : OnError(ev)
    \/ OnEnd
    \/ RestartFire

Spec == Init /\ [][Next]_vars

\* the post-processor, applied once to each input
ExtractInit ==
    /\ autoRestart = FALSE
    /\ CtlCreated
    /\ transcript \in InputTranscripts
    /\ recordingStartTime \in RecordingStarts
    /\ nowTime \in { (IF recordingStartTime = NoTime THEN 0 ELSE recordingStartTime) + d :
                       d \in Elapsed }
    /\ meetingData = NoData
    /\ auth = AuthIdle
    /\ page = PageIdle
    /\ AIIdle

ExtractNext == Extract

ExtractSpec == ExtractInit /\ [][ExtractNext]_vars

\* the controller with callbacks that write to the arrays they are handed, fed
\* with one-entry events
IsolationNext ==
    \/ Start
    \/ Stop
    \/ Abort
    \/ \E ev \in SingleEvents : \E op \in CallbackOps :
          OnResultThen(ev, op) /\ Len(finalSegments') <= MaxSegs
    \/ \E ev \in CodedErrors : OnError(ev)
    \/ \E op \in CallbackOps : OnEndThen(op)
    \/ RestartFire

IsolationSpec == Init /\ [][IsolationNext]_vars

\* the controller with error events of every shape, fed with one-entry events
ErrorNext ==
    \/ Start
    \/ Stop
    \/ Abort
    \/ \E ev \in SingleEvents : OnResult(ev)
    \/ \E ev \in ErrorEvents : OnError(ev)
    \/ OnEnd
    \/ RestartFire

ErrorSpec == Init /\ [][ErrorNext]_vars

\* sessions of at most MaxSegs segments: no segment repeats or extends its neighbour
SessionSegments ==
    LET texts == { Normalize(t) : t \in Transcripts } \ {<<>>}
        related(a, b) == a = b \/ EndsWith(a, b) \/ EndsWith(b, a)
    IN  { segs \in UNION { [1..n -> texts] : n \in 0..MaxSegs } :
             \A i \in 1..(Len(segs) - 1) : ~related(segs[i], segs[i + 1]) }

\* one result event of any shape, delivered to a session under way: while the
\* stream is active, or after stop() and before the stream's end event
ResultInit ==
    /\ autoRestart = FALSE
    /\ host = Browser
    /\ options = OptionsOfPage(autoRestart)
    /\ controller = Object
    /\ recogProps = PropsFor(options)
    /\ inFlight \in LongEvents
    /\ manualStop \in BOOLEAN
    /\ recog = (IF manualStop THEN "stopping" ELSE "active")
    /\ running = ~manualStop
    /\ stoppedRunning = manualStop
    /\ lastOp = (IF manualStop THEN "stop" ELSE "start")
    /\ finalSegments \in SessionSegments
    /\ interimText \in {<<>>} \cup InterimTranscripts
    /\ lastResultIndex \in 0..1
    /\ emitted = Snapshot(IF manualStop THEN interimText ELSE <<>>, finalSegments)
    /\ pendingRestarts = 0
    /\ calls = <<>>
    /\ thrown = FALSE
    /\ PPIdle
    /\ AIIdle

\* the recognizer delivers the queued event
Deliver ==
    /\ lastOp \in {"start", "stop"}
    /\ OnResultThen(inFlight, Keep)

ResultSpec == ResultInit /\ [][Deliver \/ OnEnd]_vars

\* one recording of the record page: the state startRecording leaves, then the
\* stream's events and the stop button
PageInit ==
    /\ autoRestart = TRUE
    /\ host = Browser
    /\ options = OptionsOfPage(autoRestart)
    /\ controller = Object
    /\ recogProps = PropsFor(options)
    /\ inFlight = NoEvent
    /\ recog = "active"
    /\ running = TRUE
    /\ manualStop = FALSE
    /\ stoppedRunning = FALSE
    /\ lastOp = "start"
    /\ finalSegments = <<>>
    /\ interimText = <<>>
    /\ lastResultIndex = 0
    /\ emitted = NoSnapshot
    /\ pendingRestarts = 0
    /\ calls = <<>>
    /\ thrown = FALSE
    /\ transcript = <<>>
    /\ auth = AuthIdle
    /\ page = [PageIdle EXCEPT !.ref = 1, !.recording = TRUE]
    /\ recordingStartTime \in RecordingStarts \ {NoTime}
    /\ nowTime \in { recordingStartTime + d : d \in Elapsed }
    /\ meetingData = NoData
    /\ AIIdle

PageSpec ==
    PageInit /\ [][StopRecording \/ (\E ev \in Events : OnResult(ev)) \/ OnEnd \/ RestartFire]_vars

\* the record page with its buttons: stop, start again, clear, while the
\* controller of the first recording and that of a later one call back
RecordSpec ==
    PageInit /\ [][\/ StopRecording
                   \/ \E allowed \in BOOLEAN : StartRecording(allowed)
                   \/ Clear
                   \/ \E ev \in SingleEvents : OnResult(ev)
                   \/ OnEnd
                   \/ RestartFire
                   \/ \E f \in {<<>>, <<Hello>>} : LaterOnResult(Snapshot(<<>>, f))]_vars

\* createSpeechRecognition, called once in each host with each set of options
CreateInit ==
    /\ host \in Hosts
    /\ options \in OptionSets
    /\ controller = NotCalled
    /\ recogProps = NoProps
    /\ inFlight = NoEvent
    /\ autoRestart = FALSE
    /\ recog = NoRecog
    /\ running = FALSE
    /\ manualStop = FALSE
    /\ interimText = <<>>
    /\ finalSegments = <<>>
    /\ lastResultIndex = 0
    /\ pendingRestarts = 0
    /\ emitted = NoSnapshot
    /\ calls = <<>>
    /\ thrown = FALSE
    /\ stoppedRunning = FALSE
    /\ lastOp = "init"
    /\ PPIdle
    /\ AIIdle

CreateNext == CreateSpeechRecognition

CreateSpec == CreateInit /\ [][CreateNext]_vars

\* generateMeetingMinutes, called once with each argument over each stored state
MinutesInit ==
    /\ autoRestart = FALSE
    /\ CtlCreated
    /\ PPIdle
    /\ storage \in Storages
    /\ minutesArg \in MinutesArgs
    /\ pc = "idle"
    /\ requests = <<>>
    /\ fetched = NoFetch
    /\ result = NoResult
    /\ loaded = NoLoad

MinutesNext ==
    \/ GenerateMeetingMinutes
    \/ \E res \in Responses : FetchResolves(res)
    \/ \E e \in FetchErrors : FetchRejects(e)

MinutesSpec == MinutesInit /\ [][MinutesNext]_vars

\* the settings page's key list and saved configuration, and one call of
\* generateMeetingMinutes
KeysInit ==
    /\ autoRestart = FALSE
    /\ CtlCreated
    /\ PPIdle
    /\ storage \in [mvp_ai : {Absent}, mvp_api_keys : {Absent, Corrupt, Json(<<EntryK1>>)}]
    /\ minutesArg = <<"h", "i">>
    /\ pc = "idle"
    /\ requests = <<>>
    /\ fetched = NoFetch
    /\ result = NoResult
    /\ loaded = NoLoad

KeysSpec ==
    KeysInit /\ [][\/ \E id \in {"k1", "k3"} : \E key \in {OpenAIKey, OtherKey} :
                        AddAPIKey([id |-> id, domain |-> "gpt", key |-> key], "t3")
                   \/ \E id \in {"k1", "k3"} : RemoveAPIKey(id)
                   \/ \E id \in {Null, "k1", "k3"} : HandleSave("gpt", <<>>, id)
                   \/ GenerateMeetingMinutes]_vars

\* getAIConfig and getAPIKeys, called once over each stored state
SettingsSpec == MinutesInit /\ [][LoadSettings]_vars

-----------------------------------------------------------------------------
(* The session gate: AuthContext.tsx, hooks/useRequireAuth.ts, api/auth/me,
   api/auth/login and the login form. auth holds
     session   the httpOnly cookie mvp_token the browser sends to the server
     cookie    what getCookie("mvp_token") returns to client code
     item      the localStorage item mvp_token
     token     AuthProvider's token state; isAuthenticated is !!token
     check     the position of checkSession(): "pending" until its fetch settles
     location  the page shown
     due       the effect of useRequireAuth has yet to run for the current
               isAuthenticated (it runs after mount and after each change)
     last      the latest step *)

FakeToken == "mvp_fake_token_v1"
Tokens == {Null, FakeToken, "stale"}

\* services/auth getToken: the cookie if there is one, else the stored item
GetToken(a) == IF a.cookie # Null THEN a.cookie ELSE a.item

\* GET /api/auth/me: 401 without the cookie, else { ok: true, token }
MeRoute(session) ==
    IF session = Null THEN [ok |-> FALSE, token |-> Null]
    ELSE [ok |-> TRUE, token |-> session]

\* useRequireAuth's effect on a protected page: if (!isAuthenticated) router.replace(LOGIN)
RequireAuthEffect ==
    /\ auth # AuthIdle
    /\ auth.due
    /\ auth.location = "record"
    /\ auth' = [auth EXCEPT !.due = FALSE, !.last = "effect",
                            !.location = IF auth.token = Null THEN "login" ELSE @]
    /\ UNCHANGED <<ctlVars, ppVars, aiVars, page>>

\* checkSession(): the fetch of /api/auth/me settles. With a response, an ok one
\* sets the token state to the server's token and any other clears it; when the
\* fetch rejects, the token state becomes getToken().
CheckSession(rejects) ==
    /\ auth # AuthIdle
    /\ auth.check = "pending"
    /\ LET res == MeRoute(auth.session)
           t   == IF rejects THEN GetToken(auth)
                  ELSE IF res.ok THEN (IF res.token # Null THEN res.token ELSE auth.token)
                  ELSE Null
       IN  auth' = [auth EXCEPT !.check = "done", !.token = t,
                                !.last = IF rejects THEN "checkRejected" ELSE "checked",
                                !.due = @ \/ ((t = Null) # (auth.token = Null))]
    /\ UNCHANGED <<ctlVars, ppVars, aiVars, page>>

\* the login form's handleSubmit: POST /api/auth/login; with admin / 123 the server
\* sets the cookie and the page stores the token (setClientToken) and goes to
\* /record; otherwise it shows an error. The token state is not set here.
HandleSubmit(username, password) ==
    /\ auth # AuthIdle
    /\ auth.location = "login"
    /\ IF username = "admin" /\ password = "123"
       THEN auth' = [auth EXCEPT !.session = FakeToken, !.item = FakeToken,
                                 !.cookie = FakeToken, !.location = "record",
                                 !.due = TRUE, !.last = "login"]
       ELSE auth' = [auth EXCEPT !.last = "loginFailed"]
    /\ UNCHANGED <<ctlVars, ppVars, aiVars, page>>

\* a protected page has just been opened: AuthProvider and the page are mounted,
\* the token state is null and checkSession() has been called
AuthInit ==
    /\ autoRestart = FALSE
    /\ CtlCreated
    /\ AIIdle
    /\ transcript = <<>>
    /\ recordingStartTime = NoTime
    /\ nowTime = 0
    /\ meetingData = NoData
    /\ page = PageIdle
    /\ auth \in [session : Tokens, cookie : Tokens, item : Tokens, token : {Null},
                  check : {"pending"}, location : {"record"}, due : {TRUE},
                  last : {"open"}]

AuthSpec ==
    AuthInit /\ [][\/ RequireAuthEffect
                   \/ \E rejects \in BOOLEAN : CheckSession(rejects)
                   \/ \E password \in {"123", "x"} : HandleSubmit("admin", password)]_vars

-----------------------------------------------------------------------------
(* Properties of the session controller, checked under Spec *)

\* the step is the firing of a restart timer
RestartFires == pendingRestarts' < pendingRestarts

\* C1: when a restart timer fires after stop() or abort() was called (manualStop
\* is set and no start() has cleared it), the stream is not reopened and the
\* controller is still not running.
C1_StaleRestartIsCancelled ==
    [][(RestartFires /\ manualStop) => (~running' /\ recog' = recog)]_vars

Related(a, b) == a = b \/ EndsWith(a, b) \/ EndsWith(b, a)

\* C2: finalSegments never holds two adjacent entries of which one, normalized,
\* equals the other or is a suffix of it.
C2_NoAdjacentDuplicates ==
    \A i \in 1..(Len(finalSegments) - 1) :
        ~Related(Normalize(finalSegments[i]), Normalize(finalSegments[i + 1]))

\* two segments were kept, the second one after the dedup test
C2_Witness ==
    /\ Len(finalSegments) >= 2
    /\ lastOp = "result"

\* C3: every finals snapshot handed to onResult has the previous snapshot as a
\* prefix, whatever the step (result, error, end, restart, start, stop, abort).
C3_SnapshotsGrowByAppending ==
    [][IsPrefix(FinalsOf(emitted), FinalsOf(emitted'))]_vars

\* a snapshot of two segments delivered by an end event that scheduled a restart
C3_Witness ==
    /\ emitted # NoSnapshot
    /\ Len(FinalsOf(emitted)) >= 2
    /\ lastOp = "endRestart"

\* C4: when the restart timer fires with manualStop clear and the recognizer
\* idle (so that recog.start() succeeds), the controller is running again with
\* the same finalSegments; and no step ever does anything to finalSegments but
\* append to it, so the reopened stream's finals extend the same sequence.
C4_RestartContinuity ==
    [][/\ (RestartFires /\ ~manualStop /\ recog = "idle")
            => (running' /\ recog' = "active" /\ finalSegments' = finalSegments)
       /\ IsPrefix(finalSegments, finalSegments')]_vars

\* the stream was reopened by the timer with segments collected before the end
C4_Witness ==
    /\ lastOp = "restart"
    /\ ~manualStop
    /\ running
    /\ finalSegments # <<>>

\* C5: start() on a running controller does not throw to the caller, leaves it
\* running and changes neither finalSegments nor the interim text.
C5_StartWhileRunningIsNoOp ==
    [][(running /\ lastOp' \in {"start", "startThrew"})
          => /\ ~thrown'
             /\ running'
             /\ finalSegments' = finalSegments
             /\ interimText' = interimText]_vars

\* a duplicate start: the recognizer refused it, the session goes on with its text
C5_Witness ==
    /\ lastOp = "startThrew"
    /\ running
    /\ finalSegments # <<>>
    /\ interimText # <<>>

\* C6: from a stop() or abort() on a running controller until the next start(),
\* the controller is not running and no end event schedules a restart.
C6_ManualStopStaysStopped ==
    stoppedRunning => (~running /\ lastOp # "endRestart")

\* C7: without autoRestart every end event leaves the controller not running
\* with no restart scheduled, and running turns true only in a start() call.
C7_IdleIsTerminalWithoutAutoRestart ==
    [][~autoRestart =>
          /\ (lastOp' \in {"end", "endRestart"}
                 => (~running' /\ pendingRestarts' = 0 /\ lastOp' = "end"))
          /\ ((~running /\ running') => lastOp' = "start")]_vars

\* an unexpected end (no stop() or abort() before it) with autoRestart off
C7_Witness ==
    /\ ~autoRestart
    /\ ~manualStop
    /\ lastOp = "end"
    /\ ~running
    /\ pendingRestarts = 0

-----------------------------------------------------------------------------
(* Error events, checked under ErrorSpec; end events, checked under IsolationSpec *)

\* C15: an error event calls onError once, with a string, and nothing else: running,
\* manualStop, finalSegments, the interim text and the cursor keep their values,
\* no onResult call is made, no restart is scheduled, the stream stays as it was.
C15_ErrorKeepsSession ==
    [][lastOp' = "error" =>
          /\ Len(calls') = 1
          /\ calls'[1].cb = "onError"
          /\ calls'[1].arg \in STRING
          /\ calls'[1].arg # ""
          /\ UNCHANGED <<running, manualStop, finalSegments, interimText, lastResultIndex>>
          /\ UNCHANGED <<emitted, pendingRestarts, recog>>]_vars

\* an error event without error code or message, in the middle of a running session
C15_Witness ==
    /\ lastOp = "error"
    /\ calls = <<OnErrorCall("Speech recognition error")>>
    /\ running
    /\ ~manualStop
    /\ autoRestart
    /\ finalSegments # <<>>
    /\ interimText # <<>>

\* C16: an end event leaves the controller not running and makes one callback
\* invocation, onResult with empty interim and the finalSegments of that moment,
\* whether it schedules a restart or not.
C16_EndEmitsFinalSnapshot ==
    [][lastOp' \in {"end", "endRestart"} =>
          /\ ~running'
          /\ Len(calls') = 1
          /\ calls'[1].cb = "onResult"
          /\ calls'[1].arg = Snapshot(<<>>, finalSegments)
          /\ finalSegments' = finalSegments]_vars

\* an end event that scheduled a restart, with segments and interim text collected
C16_Witness ==
    /\ lastOp = "endRestart"
    /\ pendingRestarts > 0
    /\ interimText # <<>>
    /\ finalSegments # <<>>
    /\ emitted = Snapshot(<<>>, finalSegments)

-----------------------------------------------------------------------------
(* Snapshot isolation, checked under IsolationSpec *)

HasScribble(segs) == \E i \in 1..Len(segs) : segs[i] = Scribble

\* C14: whatever the callback does to the finals array of an onResult call (from
\* a result event or an end event), the controller's finalSegments is, after the
\* call, the sequence it handed out, it has only grown by the event's segments,
\* and no snapshot ever carries what a callback wrote.
C14_SnapshotIsolation ==
    [][\A i \in 1..Len(calls') :
          calls'[i].cb = "onResult" =>
             /\ finalSegments' = calls'[i].arg.finals
             /\ IsPrefix(finalSegments, finalSegments')
             /\ ~HasScribble(calls'[i].arg.finals)]_vars

\* a callback overwrote an element of the snapshot an end event handed to it
C14_Witness ==
    /\ lastOp \in {"end", "endRestart"}
    /\ Len(calls) = 1
    /\ calls[1].cb = "onResult"
    /\ calls[1].then = "overwrite"
    /\ Len(calls[1].arg.finals) >= 2

-----------------------------------------------------------------------------
(* Construction, checked under CreateSpec *)

\* C13: in a host that exposes neither SpeechRecognition nor
\* webkitSpeechRecognition, createSpeechRecognition returns null, makes one
\* onError call with its message, and does not throw.
C13_NoCapabilityGivesNull ==
    (lastOp # "init" /\ ~host.SpeechRecognition /\ ~host.webkitSpeechRecognition)
    => /\ controller = Null
       /\ ~thrown
       /\ Len(calls) = 1
       /\ calls[1].cb = "onError"
       /\ calls[1].arg = NotSupported
       /\ calls[1].arg \in STRING

\* the call was made in a browser window that has neither constructor
C13_Witness ==
    /\ lastOp # "init"
    /\ host.window
    /\ ~host.SpeechRecognition
    /\ ~host.webkitSpeechRecognition
    /\ controller = Null


-----------------------------------------------------------------------------
(* Properties of the post-processor, checked under ExtractSpec *)

Occurs(text, pat) ==
    \E i \in 0..(Len(text) - Len(pat)) : SubSeq(text, i + 1, i + Len(pat)) = pat

\* a phrase of the list occurs in the transcript, letter case ignored
MarkerFound(text, patterns) ==
    \E k \in 1..Len(patterns) : Occurs(ToLowerCase(text), patterns[k])

\* the marker: the first phrase of the list that occurs, at its first occurrence
MarkerPhrase(text, patterns) ==
    patterns[CHOOSE k \in 1..Len(patterns) :
                /\ Occurs(ToLowerCase(text), patterns[k])
                /\ \A j \in 1..(k - 1) : ~Occurs(ToLowerCase(text), patterns[j])]

MarkerPos(text, patterns) ==
    LET pat == MarkerPhrase(text, patterns)
        at(i) == SubSeq(ToLowerCase(text), i + 1, i + Len(pat)) = pat
    IN  CHOOSE i \in 0..Len(text) : at(i) /\ \A j \in 0..(i - 1) : ~at(j)

Extracted == meetingData # NoData

BothMarkers ==
    MarkerFound(transcript, StartPatterns) /\ MarkerFound(transcript, EndPatterns)

NoTimingFields(md) == md.startTime = Unset /\ md.endTime = Unset /\ md.duration = Unset

\* C8: when a start marker occurs and the end marker lies after it, the result
\* is valid and its content is the trimmed text between the end of the start
\* phrase and the beginning of the end phrase ("discuss budget" for the example).
C8_ContentBetweenMarkers ==
    (/\ Extracted
     /\ BothMarkers
     /\ MarkerPos(transcript, EndPatterns) > MarkerPos(transcript, StartPatterns))
    => /\ meetingData.hasValidMeeting
       /\ meetingData.meetingContent =
             Trim(SubSeq(transcript,
                         MarkerPos(transcript, StartPatterns)
                             + Len(MarkerPhrase(transcript, StartPatterns)) + 1,
                         MarkerPos(transcript, EndPatterns)))
       /\ (transcript = ExampleTranscript => meetingData.meetingContent = DiscussBudget)

\* C9: when both markers occur and the end marker lies at or before the start
\* marker, the result is not valid and its content is the whole transcript.
C9_BackwardsMarkersGiveFullTranscript ==
    (/\ Extracted
     /\ BothMarkers
     /\ MarkerPos(transcript, EndPatterns) <= MarkerPos(transcript, StartPatterns))
    => /\ ~meetingData.hasValidMeeting
       /\ meetingData.meetingContent = transcript

\* C10: when no marker occurs, the result is not valid, its content and its
\* fullTranscript are the input as given, and it has no timing fields.
C10_NoMarkersGiveInputUnchanged ==
    (/\ Extracted
     /\ ~MarkerFound(transcript, StartPatterns)
     /\ ~MarkerFound(transcript, EndPatterns))
    => /\ ~meetingData.hasValidMeeting
       /\ meetingData.meetingContent = transcript
       /\ meetingData.fullTranscript = transcript
       /\ NoTimingFields(meetingData)

\* a marker-free transcript with white space around it, extracted with a start time
C10_Witness ==
    /\ Extracted
    /\ ~MarkerFound(transcript, StartPatterns)
    /\ ~MarkerFound(transcript, EndPatterns)
    /\ transcript # Trim(transcript)
    /\ Trim(transcript) # <<>>
    /\ recordingStartTime # NoTime

StartOnly ==
    MarkerFound(transcript, StartPatterns) /\ ~MarkerFound(transcript, EndPatterns)

EndOnly ==
    MarkerFound(transcript, EndPatterns) /\ ~MarkerFound(transcript, StartPatterns)

\* C17: when a start marker occurs and no end marker does, the result is valid
\* and its content is the trimmed text from the end of the whole start phrase
\* to the end of the transcript.
C17_StartOnlyContentAfterMarker ==
    (Extracted /\ StartOnly)
    => /\ meetingData.hasValidMeeting
       /\ meetingData.meetingContent =
             Trim(SubSeq(transcript,
                         MarkerPos(transcript, StartPatterns)
                             + Len(MarkerPhrase(transcript, StartPatterns)) + 1,
                         Len(transcript)))

\* C18: when an end marker occurs and no start marker does, the result is valid
\* and its content is the trimmed text from the beginning of the transcript up
\* to, and not including, the end marker.
C18_EndOnlyContentBeforeMarker ==
    (Extracted /\ EndOnly)
    => /\ meetingData.hasValidMeeting
       /\ meetingData.meetingContent =
             Trim(SubSeq(transcript, 1, MarkerPos(transcript, EndPatterns)))

\* text and a space before the end marker, in a spelling that is not all lower case
C18_Witness ==
    /\ Extracted
    /\ EndOnly
    /\ MarkerPos(transcript, EndPatterns) > 0
    /\ transcript # ToLowerCase(transcript)
    /\ meetingData.meetingContent # <<>>
    /\ meetingData.meetingContent # SubSeq(transcript, 1, MarkerPos(transcript, EndPatterns))

-----------------------------------------------------------------------------
(* Properties of the minutes generation client, checked under MinutesSpec *)

Called == pc # "idle"

AllWhiteSpace(text) == \A i \in 1..Len(text) : text[i] \in WhiteSpace

\* the saved configuration and key list as they stand in the storage
StoredConfig ==
    IF "json" \in DOMAIN storage.mvp_ai THEN storage.mvp_ai.json ELSE DefaultConfig

StoredKeys ==
    IF "json" \in DOMAIN storage.mvp_api_keys THEN storage.mvp_api_keys.json ELSE <<>>

\* the keys of the stored entries that the configuration's selectedKeyId names
SelectedKeys ==
    { StoredKeys[i].key : i \in { j \in 1..Len(StoredKeys) :
                                    StoredKeys[j].id = StoredConfig.selectedKeyId } }

UsableSelected == \E k \in SelectedKeys : k # <<>>

NoUsableKey == ~UsableSelected /\ StoredConfig.apiKey = <<>>

DecodeChar(c) ==
    CASE c = "%26" -> "&"
      [] c = "%3D" -> "="
      [] OTHER -> c

\* the keys a request carries, as the server reads them
KeysSent(req) ==
    { [i \in 1..Len(k) |-> DecodeChar(k[i])] : k \in req.keyParam } \cup req.bearer

IsFailureWithMessage(r) ==
    /\ DOMAIN r = {"ok", "message"}
    /\ ~r.ok
    /\ r.message # <<>>

\* C11: called with an empty or all-white-space transcript, generateMeetingMinutes
\* returns ok=false with a message and makes no HTTP request, whatever is stored.
C11_EmptyTranscriptFailsFast ==
    (Called /\ AllWhiteSpace(minutesArg))
    => /\ pc = "done"
       /\ IsFailureWithMessage(result)
       /\ requests = <<>>
       /\ fetched = NoFetch

\* a transcript of white space only, with a selected key stored that could be used
C11_Witness ==
    /\ Called
    /\ minutesArg # <<>>
    /\ AllWhiteSpace(minutesArg)
    /\ UsableSelected
    /\ StoredConfig.apiKey # <<>>

\* C12: with a transcript that is not blank, when the selected id names no stored
\* entry or one with an empty key and the configuration's apiKey is empty, the
\* call returns ok=false with a message and makes no HTTP request; when the
\* selected entry has a key, the one request made carries that key and no other.
C12_MissingCredentialFailsFast ==
    (Called /\ ~AllWhiteSpace(minutesArg))
    => /\ NoUsableKey => /\ pc = "done"
                         /\ IsFailureWithMessage(result)
                         /\ requests = <<>>
       /\ UsableSelected => /\ Len(requests) = 1
                            /\ KeysSent(requests[1]) = SelectedKeys

\* the selected id names a stored entry whose key is empty, and apiKey is empty
C12_Witness ==
    /\ Called
    /\ ~AllWhiteSpace(minutesArg)
    /\ SelectedKeys = {<<>>}
    /\ StoredConfig.apiKey = <<>>
    /\ Len(StoredKeys) = 2
    /\ pc = "done"

IsResponse(f) == "status" \in DOMAIN f

\* the non-empty texts in the reply fields of the provider the request went to
ProviderReplies(req, body) ==
    IF ~body.isJson THEN {}
    ELSE (IF IsGenerate(req) THEN body.output \cup body.content
          ELSE body.messageContent \cup body.text) \ {<<>>}

\* C19: the result is ok=true only for a 2xx response with a non-empty reply field
\* of the provider, and minutes is then the trimmed reply; a status outside 2xx
\* gives ok=false with a message made of the status and the body; a 2xx response
\* without a reply gives ok=false; a failure never carries minutes.
C19_ResponseMapping ==
    (pc = "done")
    => /\ ("ok" \in DOMAIN result /\ result.ok)
            => /\ IsResponse(fetched)
               /\ fetched.status \in 200..299
               /\ \E r \in ProviderReplies(requests[1], fetched.body) :
                      result.minutes = Trim(r)
       /\ (IsResponse(fetched) /\ fetched.status \notin 200..299)
            => /\ IsFailureWithMessage(result)
               /\ result.message = <<"HTTP", fetched.status, fetched.body>>
       /\ (IsResponse(fetched) /\ ProviderReplies(requests[1], fetched.body) = {})
            => IsFailureWithMessage(result)
       /\ ("ok" \in DOMAIN result /\ ~result.ok) => "minutes" \notin DOMAIN result

\* a 299 response to the chat request whose reply is trimmed on both sides
C19_Witness ==
    /\ pc = "done"
    /\ IsResponse(fetched)
    /\ fetched.status = 299
    /\ ~IsGenerate(requests[1])
    /\ result = Success(<<"o", "k">>)
    /\ fetched.body.messageContent = {Reply}

\* C20: no invocation makes more than one HTTP request; when the fetch rejects,
\* the call is over with that one request, it has not thrown, and its result is
\* ok=false with the message of the failure.
C20_NoRetries ==
    /\ Len(requests) <= 1
    /\ ("rejected" \in DOMAIN fetched)
         => /\ pc = "done"
            /\ Len(requests) = 1
            /\ "threw" \notin DOMAIN result
            /\ IsFailureWithMessage(result)
            /\ result.message \in {<<fetched.rejected.message>>, <<fetched.rejected.text>>}
            /\ fetched.rejected.message # "" => result.message = <<fetched.rejected.message>>

\* the generate request was rejected with an error that has no message
C20_Witness ==
    /\ "rejected" \in DOMAIN fetched
    /\ fetched.rejected.message = ""
    /\ pc = "done"
    /\ Len(requests) = 1
    /\ IsGenerate(requests[1])

-----------------------------------------------------------------------------
(* Properties of the saved settings, checked under SettingsSpec *)

Unreadable(item) == item = Absent \/ item = Corrupt

\* C21: getAIConfig does not throw; it returns the default configuration (domain
\* gpt, empty apiKey, default prompt, mode conversation, no selected key) when
\* the stored value is absent or cannot be parsed, and a stored configuration
\* with its empty prompt replaced by the default prompt otherwise; getAPIKeys
\* returns the empty list when its stored value is absent or cannot be parsed.
C21_CorruptSettingsRecovered ==
    (loaded # NoLoad)
    => /\ "threw" \notin DOMAIN loaded.config
       /\ Unreadable(storage.mvp_ai)
            => loaded.config = [domain |-> "gpt", apiKey |-> <<>>, prompt |-> DefaultPrompt,
                                processingMode |-> "conversation", selectedKeyId |-> Null]
       /\ ~Unreadable(storage.mvp_ai)
            => /\ loaded.config.prompt =
                     (IF storage.mvp_ai.json.prompt = "" THEN DefaultPrompt
                      ELSE storage.mvp_ai.json.prompt)
               /\ \A f \in {"domain", "apiKey", "processingMode", "selectedKeyId"} :
                     loaded.config[f] = storage.mvp_ai.json[f]
       /\ Unreadable(storage.mvp_api_keys) => loaded.keys = <<>>

\* both items hold text that JSON.parse rejects
C21_Witness ==
    /\ loaded # NoLoad
    /\ storage.mvp_ai = Corrupt
    /\ storage.mvp_api_keys = Corrupt

-----------------------------------------------------------------------------
(* Timing fields and marker priority, checked under ExtractSpec *)

Present(field) == field # Unset

\* both markers occur, the end marker after the start marker
MarkersInOrder ==
    /\ BothMarkers
    /\ MarkerPos(transcript, EndPatterns) > MarkerPos(transcript, StartPatterns)

\* C28: startTime, endTime and duration are all present exactly when both
\* markers occur with the end marker after the start marker and a recording-start
\* timestamp is available; otherwise all three are absent. When present, the
\* duration is the whole minutes and the remaining whole seconds (0..59) of the
\* time between the recording start and the extraction.
C28_TimingFields ==
    Extracted
    => LET secs == (nowTime - recordingStartTime) \div 1000
       IN  IF MarkersInOrder /\ recordingStartTime # NoTime
           THEN /\ Present(meetingData.startTime)
                /\ Present(meetingData.endTime)
                /\ Present(meetingData.duration)
                /\ meetingData.duration = <<secs \div 60, "phut", secs % 60, "giay">>
                /\ meetingData.duration[3] \in 0..59
           ELSE NoTimingFields(meetingData)

\* a meeting of 59.999 seconds between its markers: 0 minutes 59 seconds
C28_Witness ==
    /\ Extracted
    /\ MarkersInOrder
    /\ recordingStartTime # NoTime
    /\ nowTime - recordingStartTime = 59999
    /\ meetingData.duration = <<0, "phut", 59, "giay">>

\* the position of the marker, or -1 when no phrase of the list occurs
PriorityPos(text, patterns) ==
    IF MarkerFound(text, patterns) THEN MarkerPos(text, patterns) ELSE -1

\* a phrase listed after the marker phrase occurs before the marker's position
LaterListedOccursEarlier(text, patterns) ==
    /\ MarkerFound(text, patterns)
    /\ \E k \in 1..Len(patterns) :
         \E i \in 0..(MarkerPos(text, patterns) - 1) :
            /\ patterns[k] # MarkerPhrase(text, patterns)
            /\ i + Len(patterns[k]) <= Len(text)
            /\ SubSeq(ToLowerCase(text), i + 1, i + Len(patterns[k])) = patterns[k]

\* C29: the start position is the first occurrence, in the lower-cased
\* transcript, of the first phrase in list order that occurs anywhere, even when
\* a later-listed phrase occurs earlier; the end position likewise. Matching
\* ignores letter case, and the content is cut from the transcript as typed.
C29_MarkerPriority ==
    Extracted
    => /\ FirstIndex(ToLowerCase(transcript), StartPatterns)
            = PriorityPos(transcript, StartPatterns)
       /\ FirstIndex(ToLowerCase(transcript), EndPatterns)
            = PriorityPos(transcript, EndPatterns)
       /\ Occurs(transcript, meetingData.meetingContent)
       /\ EndOnly => meetingData.meetingContent
                        = Trim(SubSeq(transcript, 1, MarkerPos(transcript, EndPatterns)))

\* "Ket thuc Hop Hello <first-listed end phrase>": the content runs up to the
\* first-listed phrase and keeps its capitals
C29_Witness ==
    /\ Extracted
    /\ EndOnly
    /\ LaterListedOccursEarlier(transcript, EndPatterns)
    /\ ToLowerCase(meetingData.meetingContent) # meetingData.meetingContent
    /\ \E k \in 1..Len(EndPatterns) :
          Occurs(ToLowerCase(meetingData.meetingContent), EndPatterns[k])

-----------------------------------------------------------------------------
(* start() and abort(), checked under Spec *)

StartReturned == lastOp \in {"start", "startThrew"}

\* C23: when isRunning() is false (also right after stop(), before the old
\* stream's end event, and while a restart is pending), once start() returns
\* isRunning() is true and manualStop is false.
C23_StartMakesRunning ==
    [][(~running /\ StartReturned') => (running' /\ ~manualStop')]_vars

\* C25: after abort() the session's finalSegments is empty.
C25_AbortResetsSession ==
    (lastOp = "abort") => finalSegments = <<>>

-----------------------------------------------------------------------------
(* The result handler on events of any shape, checked under ResultSpec *)

\* the starting offset of the queued event: its resultIndex, else the cursor
Offset == IF inFlight.resultIndex # NoIndex THEN inFlight.resultIndex ELSE lastResultIndex

\* n is appended: it is not empty, and the session is empty or its last segment
\* L differs from n, does not end with n, and n does not end with L
Appended(segs, n) ==
    /\ n # <<>>
    /\ \/ segs = <<>>
       \/ LET L == Normalize(segs[Len(segs)])
          IN  n # L /\ ~EndsWith(L, n) /\ ~EndsWith(n, L)

\* the rule applied to the entries at 0-based indices i and above, in index order
RECURSIVE DedupRule(_, _, _)
DedupRule(segs, entries, i) ==
    IF i >= Len(entries) THEN segs
    ELSE LET n == Normalize(entries[i + 1].transcript)
         IN  IF entries[i + 1].isFinal /\ Appended(segs, n)
             THEN DedupRule(Append(segs, n), entries, i + 1)
             ELSE DedupRule(segs, entries, i + 1)

\* the transcripts of the non-final entries at indices i and above, joined in order
RECURSIVE NonFinalText(_, _)
NonFinalText(entries, i) ==
    IF i >= Len(entries) THEN <<>>
    ELSE (IF entries[i + 1].isFinal THEN <<>> ELSE entries[i + 1].transcript)
            \o NonFinalText(entries, i + 1)

ResultDelivered == lastOp = "result"

C26_InterimReplaced ==
    [][ResultDelivered'
        => /\ emitted'.interim = NonFinalText(inFlight.results, Offset)
           /\ interimText' = emitted'.interim
           /\ calls' = <<OnResultCall(emitted', Keep)>>]_vars

\* two non-final entries are read, a third below the offset is not
C26_Witness ==
    /\ ResultDelivered
    /\ inFlight.resultIndex = 1
    /\ Len(inFlight.results) = 3
    /\ \A i \in 1..3 : ~inFlight.results[i].isFinal
    /\ emitted.interim = inFlight.results[2].transcript \o inFlight.results[3].transcript

\* the events that agree with ev from its resultIndex on
SameFromOffset(ev) ==
    { other \in LongEvents :
        /\ other.resultIndex = ev.resultIndex
        /\ Len(other.results) = Len(ev.results)
        /\ \A i \in (ev.resultIndex + 1)..Len(ev.results) : other.results[i] = ev.results[i] }

\* C27: when a result event declares starting offset k, the entries below k add
\* no segment and no interim text, whatever they contain; the entries at k and
\* above are each examined once, in index order.
C27_NoRescanBelowOffset ==
    [][(ResultDelivered' /\ inFlight.resultIndex # NoIndex)
        => LET k == inFlight.resultIndex
               fromK == SubSeq(inFlight.results, k + 1, Len(inFlight.results))
               empty == [finals |-> <<>>, interim |-> <<>>]
           IN  /\ \A other \in SameFromOffset(inFlight) :
                    LET scan == ScanResults(other.results, StartIndex(other, lastResultIndex),
                                            empty)
                    IN  /\ finalSegments' = MergeFinals(finalSegments, scan.finals)
                        /\ emitted'.interim = scan.interim
               /\ finalSegments' = MergeFinals(finalSegments, ScanResults(fromK, 0, empty).finals)
               /\ Len(finalSegments') - Len(finalSegments)
                     <= Cardinality({ i \in (k + 1)..Len(inFlight.results) :
                                         inFlight.results[i].isFinal })]_vars

\* a final "c" and a non-final entry lie below the offset; neither is in the snapshot
C27_Witness ==
    /\ ResultDelivered
    /\ inFlight.resultIndex = 2
    /\ inFlight.results[1] = [isFinal |-> TRUE, transcript |-> <<"c">>]
    /\ ~inFlight.results[2].isFinal
    /\ inFlight.results[3].isFinal
    /\ emitted.interim = <<>>
    /\ \A i \in 1..Len(emitted.finals) : emitted.finals[i] # <<"c">>
    /\ emitted.finals # <<>>

\* C24: result events delivered after stop() and before the stream's end event
\* are still processed: their finals are merged into finalSegments under the
\* dedup rule and reported through onResult, and the onResult of the end event
\* contains them.
C24_FlushAfterStop ==
    [][manualStop
        => /\ ResultDelivered'
              => /\ finalSegments' = DedupRule(finalSegments, inFlight.results, Offset)
                 /\ calls' = <<OnResultCall(Snapshot(interimText', finalSegments'), Keep)>>
           /\ (lastOp' \in {"end", "endRestart"})
              => /\ finalSegments' = finalSegments
                 /\ calls' = <<OnResultCall(Snapshot(<<>>, finalSegments), Keep)>>]_vars

\* after stop() the event added segments, and the end event reported them
C24_Witness ==
    /\ lastOp = "end"
    /\ manualStop
    /\ Len(finalSegments) > MaxSegs
    /\ emitted.finals = finalSegments
    /\ \E i \in (Offset + 1)..Len(inFlight.results) :
          /\ inFlight.results[i].isFinal
          /\ Normalize(inFlight.results[i].transcript) = finalSegments[Len(finalSegments)]

-----------------------------------------------------------------------------
(* The extraction made by the stop button, checked under PageSpec *)

\* the stream of the stopped recording has delivered its end event
RecordingEnded == manualStop /\ recog = "idle"

\* C30: the extraction produced when the user stops a recording has, in its
\* fullTranscript, every final segment the controller reports for that
\* recording, also the finals delivered between stop() and the end event.
C30_ExtractionComplete ==
    (RecordingEnded /\ FinalsOf(emitted) # <<>>)
    => /\ meetingData # NoData
       /\ \A i \in 1..Len(FinalsOf(emitted)) :
             Occurs(meetingData.fullTranscript, FinalsOf(emitted)[i])

-----------------------------------------------------------------------------
(* The cursor, checked under ResultSpec *)

\* C38: after a result event that declares starting offset k has been
\* processed, the cursor lastResultIndex equals k.
C38_CursorIsOffset ==
    (ResultDelivered /\ inFlight.resultIndex # NoIndex)
    => lastResultIndex = inFlight.resultIndex

-----------------------------------------------------------------------------
(* Provider routing, checked under MinutesSpec *)

GenerateShape(req) ==
    /\ req.method = "POST"
    /\ req.url = "https://generativelanguage.googleapis.com/v1beta2/models/text-bison-001:generate"
    /\ req.keyParam # {}
    /\ req.bearer = {}

ChatShape(req) ==
    /\ req.method = "POST"
    /\ req.url = "https://api.openai.com/v1/chat/completions"
    /\ req.bearer # {}
    /\ req.keyParam = {}

\* C34: the saved domain decides the request first: "gemini" sends the generate
\* POST with the key as a query parameter and no bearer header, "gpt" or "grok"
\* the chat-completion POST with the key as bearer token; the key's prefix
\* ("AIza" for the generate form) decides only for any other domain. No request
\* carries the key in both forms.
C34_ProviderRouting ==
    \A i \in 1..Len(requests) :
        LET req == requests[i]
            domain == StoredConfig.domain
        IN  /\ domain = "gemini" => GenerateShape(req)
            /\ domain \in {"gpt", "grok"} => ChatShape(req)
            /\ domain \notin {"gemini", "gpt", "grok"}
                 => IF \E k \in KeysSent(req) : StartsWith(k, "AIza")
                    THEN GenerateShape(req)
                    ELSE ChatShape(req)
            /\ Cardinality(KeysSent(req)) = 1
            /\ req.keyParam = {} \/ req.bearer = {}

\* a Google-style key under the saved domain "gpt" goes out as a bearer token
C34_Witness ==
    /\ requests # <<>>
    /\ StoredConfig.domain = "gpt"
    /\ requests[1].bearer = {GeminiKey}
    /\ ChatShape(requests[1])

-----------------------------------------------------------------------------
(* The stored key list, checked under KeysSpec *)

\* a step of a settings call: generateMeetingMinutes is not the one that moved
SettingsStep == pc' = pc

Without(list, p) == SubSeq(list, 1, p - 1) \o SubSeq(list, p + 1, Len(list))

Kept(list, id) == SelectSeq(list, LAMBDA k : k.id # id)

\* C36: addAPIKey adds exactly one entry, the given one stamped with createdAt,
\* and keeps every existing entry unchanged and in the same relative order;
\* removeAPIKey(id) removes exactly the entries whose id is id and keeps the
\* others in order; so adding an entry with a fresh id and removing that id
\* gives back the collection as it was.
C36_KeyCollectionUpdates ==
    [][SettingsStep
        => /\ ("added" \in DOMAIN loaded')
              => /\ \E p \in 1..Len(StoredKeys') :
                       /\ StoredKeys'[p] = loaded'.added
                       /\ Without(StoredKeys', p) = StoredKeys
                 /\ loaded'.added.createdAt = "t3"
                 /\ (\A i \in 1..Len(StoredKeys) : StoredKeys[i].id # loaded'.added.id)
                       => Kept(StoredKeys', loaded'.added.id) = StoredKeys
           /\ ("removed" \in DOMAIN loaded')
              => StoredKeys' = Kept(StoredKeys, loaded'.removed)]_vars

\* an entry was added to a list that already held one of the same id
C36_Witness ==
    /\ "added" \in DOMAIN loaded
    /\ Len(StoredKeys) = 2
    /\ StoredKeys[1] = loaded.added
    /\ StoredKeys[2].id = StoredKeys[1].id
    /\ StoredKeys[2].key # StoredKeys[1].key

\* C35: after a stored key that was selected and saved in the settings is
\* removed with removeAPIKey(id), and until a configuration is saved again, no
\* generateMeetingMinutes call sends that key's secret.
C35_RemovedKeyNotSent ==
    [][(/\ "removed" \in DOMAIN loaded
        /\ StoredConfig.selectedKeyId = loaded.removed
        /\ requests' # requests)
        => KeysSent(requests'[Len(requests')]) \cap loaded.secrets = {}]_vars

-----------------------------------------------------------------------------
(* Properties of the session gate, checked under AuthSpec *)

\* C37: a user whose session is valid (the who-am-I check would succeed) is not
\* sent to the login page by useRequireAuth's effect, whether or not the
\* session check has settled.
C37_ValidSessionNotRedirected ==
    (auth # AuthIdle /\ auth.session # Null /\ auth.last = "effect")
        => auth.location = "record"

-----------------------------------------------------------------------------
(* Properties of the record page, checked under RecordSpec *)

C32_ClearedStaysEmpty ==
    [][(page.ref = 1 /\ lastOp = "clear" /\ lastOp' \in {"end", "endRestart"})
        => page'.finalSegments = <<>>]_vars

\* C33: once startRecording has created a further controller, the page's interim
\* and finalSegments change only by that controller's onResult or by clear(),
\* and the controller created before is not running.
C33_OnlyLatestController ==
    [][(page.ref > 1 /\ page'.ref = page.ref)
        => /\ (<<page'.interim, page'.finalSegments>> # <<page.interim, page.finalSegments>>)
                => lastOp' \in {"laterResult", "clear"}
           /\ ~running']_vars

====
